---- MODULE Spec2Model ----
(***************************************************************************)
(* Model of the sol request router (router.go): path normalisation, the    *)
(* per-method trie with static and parameter children, route registration  *)
(* with the global middleware list, and lookup.                            *)
(*                                                                         *)
(* A Go string is a sequence of one-character strings, so that trimming,   *)
(* collapsing and splitting are computed character by character.  A Go     *)
(* slice is a record [nil, elems]; a Go map[string]T is a function whose   *)
(* DOMAIN is the key set.                                                  *)
(***************************************************************************)
EXTENDS Integers, Sequences, FiniteSets, TLC

\* ------------------------------------------------------------------ bounds
\* longest raw string handed to normalizePath in SpecNorm
MaxLen == 4
\* number of route registration calls in one behaviour
MaxRegs == 2
\* number of Use calls in one behaviour
MaxUse == 1
\* number of groups created in one behaviour of SpecGroup
MaxGroups == 2
\* number of registrations made through a group in one behaviour of SpecGroup
MaxGroupRegs == 1

\* length of the longest chain dispatched in SpecCursor
MaxChain == 128

\* number of Next calls the repeating handler makes in SpecCursor
MaxRepeat == 127

\* number of goroutines calling getCachedRegex in SpecRegex, Stop in SpecStop
MaxGoroutines == 2

\* number of Stop calls one goroutine makes in SpecStop
MaxStopCalls == 2

\* number of goroutines the handlers spawn in SpecData
MaxSpawned == 2

\* number of workers serving requests concurrently in SpecPool
MaxWorkers == 2

\* number of Next calls one activation of a handler makes in SpecServe
MaxNextCalls == 2
\* characters raw strings are drawn from in SpecNorm
Alphabet == {"/", " ", "a"}

VARIABLES
    raw,          \* SpecNorm: the string passed to normalizePath
    once,         \* SpecNorm: normalizePath(raw)
    twice,        \* SpecNorm: normalizePath(normalizePath(raw))
    npc,          \* SpecNorm: "in" -> "once" -> "twice"
    trees,        \* routerImpl.trees: method -> trie
    middlewares,  \* routerImpl.middlewares
    registered,   \* history: <<method, normalized path>> -> last successful registration
    last,         \* the call that produced this state and its outcome
    regs,         \* number of registration calls made
    uses,         \* number of Use calls made
    groups,       \* SpecGroup: the group objects created so far, in creation order
    groupRaw,     \* history: for each group, the raw prefixes it was built from
    gregs,        \* SpecGroup: number of registrations made through a group
    notFound,     \* routerImpl.notFound
    pool,         \* routerImpl.pool: the Context objects a Get may return
    ctxs,         \* the Context objects allocated so far
    disp,         \* the latest ServeHTTP call
    nreq,         \* identity of the latest request: 1 and 2 in turn, 0 before the first
    vobj,         \* SpecValidate: the value passed to ValidateStruct
    verrs,        \* SpecValidate: the ValidationErrors it returned
    vpc,          \* SpecValidate: "in" -> "out"
    regexCache,   \* SpecRegex: the map regexCache, pattern -> compiled instance
    regexCacheMu, \* SpecRegex: the RWMutex: number of readers and the writer (0 if none)
    gor,          \* SpecRegex: each goroutine's position in getCachedRegex
    compiled,     \* SpecRegex: number of instances regexp.Compile has returned
    returned,     \* history: pattern -> the results getCachedRegex returned for it
    stop,         \* SpecStop: Sol.stop, the channel: closed or not, and the closes executed
    stopOnce,     \* SpecStop: Sol.stopOnce: its done flag and the holder of its mutex (0 if none)
    callers,      \* SpecStop: each goroutine's position in Stop and the calls it has made
    run,          \* SpecStop: the position of Run and the signal delivered to the process
    cmu,          \* SpecData: Context.mu: its readers and its writer (-1 if none)
    cdata,        \* SpecData: the keys of Context.data
    accesses,     \* SpecData: the accesses to the map Context.data in progress
    agents,       \* SpecData: the position of ServeHTTP (agent 0) and of each spawned goroutine
    cobjs,        \* SpecPool: the Context objects that are referenced, by identity
    cpool,        \* SpecPool: the identities a Get of routerImpl.pool may return
    workers       \* SpecPool: each worker's ServeHTTP call: position, request, Context held

normVars == <<raw, once, twice, npc>>
routerVars == <<trees, middlewares, registered, last, regs, uses>>
groupVars == <<groups, groupRaw, gregs>>
serveVars == <<notFound, pool, ctxs, disp, nreq>>
valVars == <<vobj, verrs, vpc>>
regexVars == <<regexCache, regexCacheMu, gor, compiled, returned>>
stopVars == <<stop, stopOnce, callers, run>>
dataVars == <<cmu, cdata, accesses, agents>>
poolVars == <<cobjs, cpool, workers>>
syncVars == <<stopVars, dataVars, poolVars>>
vars == <<raw, once, twice, npc, trees, middlewares, registered, last, regs, uses,
          groups, groupRaw, gregs, notFound, pool, ctxs, disp, nreq,
          vobj, verrs, vpc,
          regexCache, regexCacheMu, gor, compiled, returned,
          stop, stopOnce, callers, run, cmu, cdata, accesses, agents,
          cobjs, cpool, workers>>

\* ------------------------------------------------------------ Go strings
Slash == "/"
Root == <<"/">>

\* unicode.IsSpace restricted to the alphabets used here
IsSpace(c) == c = " "

RECURSIVE TrimLeft(_)
TrimLeft(s) == IF s # <<>> /\ IsSpace(Head(s)) THEN TrimLeft(Tail(s)) ELSE s

RECURSIVE TrimRight(_)
TrimRight(s) ==
    IF s # <<>> /\ IsSpace(s[Len(s)]) THEN TrimRight(SubSeq(s, 1, Len(s) - 1)) ELSE s

\* strings.TrimSpace
TrimSpace(s) == TrimRight(TrimLeft(s))

\* strings.Contains(s, "//")
ContainsDouble(s) == \E i \in 1..(Len(s) - 1) : s[i] = Slash /\ s[i + 1] = Slash

\* strings.ReplaceAll(s, "//", "/"): non-overlapping matches, left to right
RECURSIVE ReplaceAllDouble(_)
ReplaceAllDouble(s) ==
    IF Len(s) < 2 THEN s
    ELSE IF s[1] = Slash /\ s[2] = Slash
         THEN <<Slash>> \o ReplaceAllDouble(SubSeq(s, 3, Len(s)))
         ELSE <<s[1]>> \o ReplaceAllDouble(Tail(s))

\* for strings.Contains(path, "//") { path = strings.ReplaceAll(path, "//", "/") }
RECURSIVE CollapseLoop(_)
CollapseLoop(s) == IF ContainsDouble(s) THEN CollapseLoop(ReplaceAllDouble(s)) ELSE s

\* strings.HasPrefix(s, "/")
HasSlashPrefix(s) == s # <<>> /\ s[1] = Slash

\* strings.HasSuffix(s, "/")
HasSlashSuffix(s) == s # <<>> /\ s[Len(s)] = Slash

\* strings.TrimSuffix(s, "/")
TrimSlashSuffix(s) == IF HasSlashSuffix(s) THEN SubSeq(s, 1, Len(s) - 1) ELSE s

\* strings.TrimPrefix(s, "/")
TrimSlashPrefix(s) == IF HasSlashPrefix(s) THEN Tail(s) ELSE s

\* strings.Split(s, "/"): always at least one element
RECURSIVE SplitSlash(_)
SplitSlash(s) ==
    IF \A i \in 1..Len(s) : s[i] # Slash THEN <<s>>
    ELSE LET i == CHOOSE k \in 1..Len(s) :
                      s[k] = Slash /\ \A j \in 1..(k - 1) : s[j] # Slash
         IN <<SubSeq(s, 1, i - 1)>> \o SplitSlash(SubSeq(s, i + 1, Len(s)))

\* ---------------------------------------------------------- normalizePath
\* one ReplaceAll pass instead of the loop
normalizePath_singlePass(path) ==
    IF path = <<>> THEN Root
    ELSE LET trimmed == TrimSpace(path)
             collapsed == ReplaceAllDouble(trimmed)
             rooted == IF HasSlashPrefix(collapsed) THEN collapsed ELSE <<Slash>> \o collapsed
         IN IF rooted # Root THEN TrimSlashSuffix(rooted) ELSE rooted

normalizePath(path) ==
    IF path = <<>> THEN Root
    ELSE LET trimmed == TrimSpace(path)
             collapsed == CollapseLoop(trimmed)
             rooted == IF HasSlashPrefix(collapsed) THEN collapsed ELSE <<Slash>> \o collapsed
         IN IF rooted # Root THEN TrimSlashSuffix(rooted) ELSE rooted

\* ------------------------------------------------------- slices and maps
\* a nil slice, and the slice make/append build from the elements s
NilSlice == [nil |-> TRUE, elems |-> <<>>]
MakeSlice(s) == [nil |-> FALSE, elems |-> s]

\* a map with no key (a nil map reads the same), and m[k] = v
EmptyMap == [k \in {} |-> <<>>]
MapSet(m, k, v) == [x \in (DOMAIN m) \cup {k} |-> IF x = k THEN v ELSE m[x]]

\* --------------------------------------------------------------- the trie
\* A trie is a function from node positions to node records.  The position
\* of a node is the sequence of edges from the root: a static edge is the
\* segment that keys node.children, the parameter edge is ParamEdge (no
\* static segment starts with ':', so the two never coincide).
ParamMarker == ":"
ParamEdge == <<ParamMarker>>
RootPos == <<>>

\* &node{children: make(map[string]*node)}
newStaticNode ==
    [children |-> [nil |-> FALSE, keys |-> {}], paramChild |-> FALSE,
     handlers |-> NilSlice, isEnd |-> FALSE, paramName |-> <<>>]

\* &node{paramName: paramName}
newParamNode(paramName) ==
    [children |-> [nil |-> TRUE, keys |-> {}], paramChild |-> FALSE,
     handlers |-> NilSlice, isEnd |-> FALSE, paramName |-> paramName]

\* the method's tree is started anew by every call
getTree_reset(ts, method) ==
    [m \in DOMAIN ts \cup {method} |->
        IF m = method THEN (RootPos :> newStaticNode) ELSE ts[m]]

\* routerImpl.getTree: the method's root, created on first use
getTree(ts, method) ==
    IF method \in DOMAIN ts THEN ts ELSE ts @@ (method :> (RootPos :> newStaticNode))

\* cur.isEnd = true; cur.handlers = combined
setEnd(tree, cur, combined) ==
    [tree EXCEPT ![cur].isEnd = TRUE, ![cur].handlers = combined]

\* a conflicting parameter name reuses the existing parameter child
RECURSIVE insertLoop_noConflict(_, _, _, _)
insertLoop_noConflict(tree, cur, segments, combined) ==
    IF segments = <<>> THEN [tree |-> setEnd(tree, cur, combined), panic |-> FALSE]
    ELSE LET segment == Head(segments)
             isParam == segment[1] = ParamMarker
         IN IF isParam
            THEN LET child == Append(cur, ParamEdge)
                 IN IF tree[cur].paramChild
                    THEN insertLoop_noConflict(tree, child, Tail(segments), combined)
                    ELSE insertLoop_noConflict(
                             [tree EXCEPT ![cur].paramChild = TRUE]
                                 @@ (child :> newParamNode(Tail(segment))),
                             child, Tail(segments), combined)
            ELSE LET child == Append(cur, segment)
                     made == [tree EXCEPT ![cur].children.nil = FALSE]
                 IN IF segment \in made[cur].children.keys
                    THEN insertLoop_noConflict(made, child, Tail(segments), combined)
                    ELSE insertLoop_noConflict(
                             [made EXCEPT ![cur].children.keys = @ \cup {segment}]
                                 @@ (child :> newStaticNode),
                             child, Tail(segments), combined)

\* the final node keeps the chain of its first registration
RECURSIVE insertLoop_keepFirst(_, _, _, _)
insertLoop_keepFirst(tree, cur, segments, combined) ==
    IF segments = <<>>
    THEN [tree |-> IF tree[cur].isEnd THEN tree ELSE setEnd(tree, cur, combined),
          panic |-> FALSE]
    ELSE LET segment == Head(segments)
             isParam == segment[1] = ParamMarker
         IN IF isParam
            THEN LET paramName == Tail(segment)
                     child == Append(cur, ParamEdge)
                 IN IF tree[cur].paramChild
                    THEN IF tree[child].paramName # paramName
                         THEN [tree |-> tree, panic |-> TRUE]
                         ELSE insertLoop_keepFirst(tree, child, Tail(segments), combined)
                    ELSE insertLoop_keepFirst(
                             [tree EXCEPT ![cur].paramChild = TRUE]
                                 @@ (child :> newParamNode(paramName)),
                             child, Tail(segments), combined)
            ELSE LET child == Append(cur, segment)
                     made == [tree EXCEPT ![cur].children.nil = FALSE]
                 IN IF segment \in made[cur].children.keys
                    THEN insertLoop_keepFirst(made, child, Tail(segments), combined)
                    ELSE insertLoop_keepFirst(
                             [made EXCEPT ![cur].children.keys = @ \cup {segment}]
                                 @@ (child :> newStaticNode),
                             child, Tail(segments), combined)

\* a conflicting parameter name replaces the existing parameter child
RECURSIVE insertLoop_rename(_, _, _, _)
insertLoop_rename(tree, cur, segments, combined) ==
    IF segments = <<>> THEN [tree |-> setEnd(tree, cur, combined), panic |-> FALSE]
    ELSE LET segment == Head(segments)
             isParam == segment[1] = ParamMarker
         IN IF isParam
            THEN LET paramName == Tail(segment)
                     child == Append(cur, ParamEdge)
                 IN IF tree[cur].paramChild
                    THEN IF tree[child].paramName # paramName
                         THEN insertLoop_rename(
                                  [tree EXCEPT ![child].paramName = paramName],
                                  child, Tail(segments), combined)
                         ELSE insertLoop_rename(tree, child, Tail(segments), combined)
                    ELSE insertLoop_rename(
                             [tree EXCEPT ![cur].paramChild = TRUE]
                                 @@ (child :> newParamNode(paramName)),
                             child, Tail(segments), combined)
            ELSE LET child == Append(cur, segment)
                     made == [tree EXCEPT ![cur].children.nil = FALSE]
                 IN IF segment \in made[cur].children.keys
                    THEN insertLoop_rename(made, child, Tail(segments), combined)
                    ELSE insertLoop_rename(
                             [made EXCEPT ![cur].children.keys = @ \cup {segment}]
                                 @@ (child :> newStaticNode),
                             child, Tail(segments), combined)

\* routerImpl.insert, the loop over the segments and the two lines after it.
\* The result is the trie as the call leaves it, and whether it panicked:
\* a panic leaves every node created before it in place.
RECURSIVE insertLoop(_, _, _, _)
insertLoop(tree, cur, segments, combined) ==
    IF segments = <<>> THEN [tree |-> setEnd(tree, cur, combined), panic |-> FALSE]
    ELSE LET segment == Head(segments)
             isParam == segment[1] = ParamMarker
         IN IF isParam
            THEN LET paramName == Tail(segment)
                     child == Append(cur, ParamEdge)
                 IN IF tree[cur].paramChild
                    THEN IF tree[child].paramName # paramName
                         THEN [tree |-> tree, panic |-> TRUE]
                         ELSE insertLoop(tree, child, Tail(segments), combined)
                    ELSE insertLoop(
                             [tree EXCEPT ![cur].paramChild = TRUE]
                                 @@ (child :> newParamNode(paramName)),
                             child, Tail(segments), combined)
            ELSE LET child == Append(cur, segment)
                     made == [tree EXCEPT ![cur].children.nil = FALSE]
                 IN IF segment \in made[cur].children.keys
                    THEN insertLoop(made, child, Tail(segments), combined)
                    ELSE insertLoop(
                             [made EXCEPT ![cur].children.keys = @ \cup {segment}]
                                 @@ (child :> newStaticNode),
                             child, Tail(segments), combined)

\* the root is marked terminal before the segments are walked
insert_markRoot(ts, method, path, combined) ==
    LET norm == normalizePath(path)
        made == getTree(ts, method)
        root == setEnd(made[method], RootPos, combined)
    IN IF norm = Root
       THEN [trees |-> [made EXCEPT ![method] = root], panic |-> FALSE]
       ELSE LET r == insertLoop(root, RootPos, SplitSlash(Tail(norm)), combined)
            IN [trees |-> [made EXCEPT ![method] = r.tree], panic |-> r.panic]

\* routerImpl.insert: the new method -> trie map, and whether the call panicked
insert(ts, method, path, combined) ==
    LET norm == normalizePath(path)
        made == getTree(ts, method)
        root == made[method]
    IN IF norm = Root
       THEN [trees |-> [made EXCEPT ![method] = setEnd(root, RootPos, combined)],
             panic |-> FALSE]
       ELSE LET r == insertLoop(root, RootPos, SplitSlash(Tail(norm)), combined)
            IN [trees |-> [made EXCEPT ![method] = r.tree], panic |-> r.panic]

\* ----------------------------------------------------------------- search
\* return nil, nil
Miss == [handlers |-> NilSlice, params |-> EmptyMap]

\* the parameter child is tried before the static children
RECURSIVE searchLoop_paramFirst(_, _, _, _)
searchLoop_paramFirst(tree, cur, segments, params) ==
    IF segments = <<>>
    THEN IF tree[cur].isEnd
         THEN [handlers |-> tree[cur].handlers, params |-> params]
         ELSE Miss
    ELSE LET segment == Head(segments)
         IN IF tree[cur].paramChild
            THEN LET child == Append(cur, ParamEdge)
                 IN searchLoop_paramFirst(tree, child, Tail(segments),
                                          MapSet(params, tree[child].paramName, segment))
            ELSE IF ~tree[cur].children.nil /\ segment \in tree[cur].children.keys
                 THEN searchLoop_paramFirst(tree, Append(cur, segment), Tail(segments), params)
                 ELSE Miss

\* an unmatched segment ends the walk (break) instead of the search (return)
RECURSIVE searchLoop_breakOnMiss(_, _, _, _)
searchLoop_breakOnMiss(tree, cur, segments, params) ==
    IF segments = <<>>
    THEN IF tree[cur].isEnd
         THEN [handlers |-> tree[cur].handlers, params |-> params]
         ELSE Miss
    ELSE LET segment == Head(segments)
         IN IF ~tree[cur].children.nil /\ segment \in tree[cur].children.keys
            THEN searchLoop_breakOnMiss(tree, Append(cur, segment), Tail(segments), params)
            ELSE IF tree[cur].paramChild
                 THEN LET child == Append(cur, ParamEdge)
                      IN searchLoop_breakOnMiss(tree, child, Tail(segments),
                                                MapSet(params, tree[child].paramName, segment))
                 ELSE searchLoop_breakOnMiss(tree, cur, <<>>, params)

\* routerImpl.search, the loop over the segments and the lines after it
RECURSIVE searchLoop(_, _, _, _)
searchLoop(tree, cur, segments, params) ==
    IF segments = <<>>
    THEN IF tree[cur].isEnd
         THEN [handlers |-> tree[cur].handlers, params |-> params]
         ELSE Miss
    ELSE LET segment == Head(segments)
         IN IF ~tree[cur].children.nil /\ segment \in tree[cur].children.keys
            THEN searchLoop(tree, Append(cur, segment), Tail(segments), params)
            ELSE IF tree[cur].paramChild
                 THEN LET child == Append(cur, ParamEdge)
                      IN searchLoop(tree, child, Tail(segments),
                                    MapSet(params, tree[child].paramName, segment))
                 ELSE Miss

\* the request path is walked as received
search_raw(ts, method, path) ==
    IF method \notin DOMAIN ts THEN Miss
    ELSE LET root == ts[method]
         IN IF path = Root \/ path = <<>>
            THEN IF root[RootPos].isEnd
                 THEN [handlers |-> root[RootPos].handlers, params |-> EmptyMap]
                 ELSE Miss
            ELSE searchLoop(root, RootPos, SplitSlash(TrimSlashPrefix(path)), EmptyMap)

\* a method without a tree is looked up in the GET tree
search_fallbackGet(ts, method, path) ==
    LET norm == normalizePath(path)
        m == IF method \in DOMAIN ts THEN method ELSE "GET"
    IN IF m \notin DOMAIN ts THEN Miss
       ELSE LET root == ts[m]
            IN IF norm = Root
               THEN IF root[RootPos].isEnd
                    THEN [handlers |-> root[RootPos].handlers, params |-> EmptyMap]
                    ELSE Miss
               ELSE searchLoop(root, RootPos, SplitSlash(Tail(norm)), EmptyMap)

\* routerImpl.search: the chain (nil on a miss) and the captured parameters
search(ts, method, path) ==
    LET norm == normalizePath(path)
    IN IF method \notin DOMAIN ts THEN Miss
       ELSE LET root == ts[method]
            IN IF norm = Root
               THEN IF root[RootPos].isEnd
                    THEN [handlers |-> root[RootPos].handlers, params |-> EmptyMap]
                    ELSE Miss
               ELSE searchLoop(root, RootPos, SplitSlash(Tail(norm)), EmptyMap)

\* --------------------------------------------------------------- addRoute
\* the route's chain is its handlers alone
addRoute_handlersOnly(ts, method, path, mws, handlers) ==
    insert(ts, method, path, MakeSlice(handlers))

\* routerImpl.addRoute: combined = middlewares ++ handlers, a fresh slice
addRoute(ts, method, path, mws, handlers) ==
    insert(ts, method, path, MakeSlice(mws \o handlers))

\* ----------------------------------------------------------------- groups
\* A group object is a record [prefix, middlewares, parent]; parent is the
\* index of the parent group in the sequence of groups, 0 for nil.
NoGroup == 0

\* routerImpl.Group
routerGroup(prefix, m) ==
    [prefix |-> normalizePath(prefix), middlewares |-> m, parent |-> NoGroup]

\* if !strings.HasSuffix(p, "/") { p += "/" }
withSlash(p) == IF HasSlashSuffix(p) THEN p ELSE p \o <<Slash>>

\* group.Group
groupGroup(gs, g, sub, m) ==
    [prefix |-> withSlash(gs[g].prefix) \o TrimSlashPrefix(normalizePath(sub)),
     middlewares |-> m, parent |-> g]

\* group.collectMiddlewares, the loop from the group up to the root group
RECURSIVE collectLoop(_, _)
collectLoop(gs, current) ==
    IF current = NoGroup THEN <<>>
    ELSE gs[current].middlewares \o collectLoop(gs, gs[current].parent)

\* the router's middleware is put before the groups' middleware
collectMiddlewares_globalFirst(gs, g, routerMws) == routerMws \o collectLoop(gs, g)

\* group.collectMiddlewares
collectMiddlewares(gs, g, routerMws) == collectLoop(gs, g) \o routerMws

\* the prefix and the path are concatenated without a separator
fullPath_noSeparator(gs, g, path) ==
    LET norm == normalizePath(path)
    IN IF norm # Root THEN gs[g].prefix \o TrimSlashPrefix(norm) ELSE gs[g].prefix

\* group.add: the path handed to addRoute
fullPath(gs, g, path) ==
    LET norm == normalizePath(path)
    IN IF norm # Root
       THEN withSlash(gs[g].prefix) \o TrimSlashPrefix(norm)
       ELSE gs[g].prefix

\* group.add
groupAdd(ts, gs, g, routerMws, method, path, h) ==
    addRoute(ts, method, fullPath(gs, g, path), collectMiddlewares(gs, g, routerMws), h)

\* ----------------------------------------------------------------- inputs
Methods == {"GET", "POST"}

\* paths handed to the registration verbs, as written by the caller
RawPaths ==
    { <<>>,                                         \* ""
      <<"/", "u">>,                                 \* "/u"
      <<" ", "/", "u", "/", "/", " ">>,             \* " /u// "
      <<"/", "u", "/", ":", "i">>,                  \* "/u/:i"
      <<"/", "u", "/", ":", "k">>,                  \* "/u/:k"
      <<"u", "/", "m", "/">>,                       \* "u/m/"
      <<"/", "u", "/", ":", "i", "/", ":", "k">>,   \* "/u/:i/:k"
      <<"/", ":", "i", "/", ":", "i">> }            \* "/:i/:i"

\* paths of incoming requests
Requests ==
    RawPaths \cup
    { <<"/">>,                                      \* "/"
      <<"/", "u", "/">>,                            \* "/u/"
      <<"/", "/", "u">>,                            \* "//u"
      <<"/", "u", "/", "m">>,                       \* "/u/m"
      <<"/", "u", "/", "1">>,                       \* "/u/1"
      <<"/", "u", "/", "1", "/", "p">>,             \* "/u/1/p"
      <<"/", "u", "/", "m", "/", "p">>,             \* "/u/m/p"
      <<"/", "1", "/", "2">>,                       \* "/1/2"
      <<"/", "x">> }                                \* "/x"

\* A HandlerFunc value is a pair <<kind, n>>.  Every registration call passes
\* one handler of its own and every Use call one middleware of its own.
Handler(n) == <<"h", n>>
Middleware(n) == <<"m", n>>

\* the middleware handed to the call that creates the n-th group
GroupMw(n) == <<"g", n>>

\* prefixes handed to routerImpl.Group and group.Group
GroupPrefixes ==
    { <<>>,                                         \* ""
      <<"/">>,                                      \* "/"
      <<"a", "/">>,                                 \* "a/"
      <<"/", ":", "i">>,                            \* "/:i"
      <<"a", " ">> }                                \* "a "

\* relative paths handed to a group's registration verbs
GroupPaths ==
    { <<>>,                                         \* ""
      <<"/">>,                                      \* "/"
      <<":", "k", "/">>,                            \* ":k/"
      <<" ", "b">> }                                \* " b"

RECURSIVE StringsUpTo(_)
StringsUpTo(n) ==
    IF n = 0 THEN {<<>>}
    ELSE LET shorter == StringsUpTo(n - 1)
         IN shorter \cup {Append(s, c) : s \in {t \in shorter : Len(t) = n - 1}, c \in Alphabet}

\* ------------------------------------------------------------------ state
NoTable == [k \in {} |-> Miss]

NoCall ==
    [op |-> "none", method |-> "", path |-> <<>>, args |-> <<>>, mws |-> <<>>,
     panic |-> FALSE, result |-> NoTable, group |-> 0]

\* New(): the stop channel is open, stopOnce is unused, Run has not been called
StopIdle ==
    /\ stop = [closed |-> FALSE, closes |-> 0]
    /\ stopOnce = [done |-> FALSE, m |-> 0]
    /\ callers = [g \in 1..MaxGoroutines |-> [pc |-> "idle", calls |-> 0]]
    /\ run = [pc |-> "new", sig |-> FALSE, cause |-> "none"]

\* a Context of the pool between two requests: nobody holds its lock
DataIdle ==
    /\ cmu = [readers |-> {}, writer |-> -1]
    /\ cdata = {}
    /\ accesses = {}
    /\ agents = [a \in 0..MaxSpawned |-> [pc |-> IF a = 0 THEN "idle" ELSE "none"]]

\* no Context allocated yet, every worker between two requests
PoolIdle ==
    /\ cobjs = << >>
    /\ cpool = {}
    /\ workers = [w \in 1..MaxWorkers |-> [pc |-> "idle", req |-> w, ctx |-> 0]]

SyncIdle == StopIdle /\ DataIdle /\ PoolIdle

RegexIdle ==
    /\ regexCache = [k \in {} |-> <<>>]
    /\ regexCacheMu = [readers |-> 0, writer |-> 0]
    /\ gor = <<>>
    /\ compiled = 0
    /\ returned = [k \in {} |-> <<>>]

ValIdle ==
    /\ vobj = <<>>
    /\ verrs = [k \in {} |-> <<>>]
    /\ vpc = "idle"

RouterInit ==
    /\ trees = [m \in {} |-> <<>>]
    /\ middlewares = <<>>
    /\ registered = EmptyMap
    /\ last = NoCall
    /\ regs = 0
    /\ uses = 0

NormIdle ==
    /\ raw = <<>>
    /\ once = <<>>
    /\ twice = <<>>
    /\ npc = "idle"

\* ------------------------------------------------- Context and dispatch
\* the built-in fallback newRouter installs
DefaultNotFound == <<"nf", 0>>
\* a fallback handed to NotFound by the application
CustomNotFound == <<"nf", 1>>
\* the nil HandlerFunc
NilHandler == <<"nil", 0>>
\* the middleware Recover() returns
RecoverMw == <<"recover", 0>>
\* the middleware Logger() returns: it calls c.Next() once, then logs
LoggerMw == <<"logger", 0>>
\* a handler that calls c.Next() again and again
RepeatHandler == <<"repeat", 0>>
\* the body the built-in fallback writes, and the one http.Error writes
NotFoundBody == "404 page not found\n"
InternalErrorBody == "Internal Server Error\n"

\* int8 arithmetic of Context.index
Int8(x) == ((x + 128) % 256) - 128

\* pool.New: a Context with empty maps and zero fields; Writer and Request
\* are 0 for nil, else the number of the request they belong to
newContext ==
    [Writer |-> 0, Request |-> 0, params |-> EmptyMap, data |-> EmptyMap,
     index |-> 0, handlers |-> NilSlice, aborted |-> FALSE]

\* acquireCtx after pool.Get returned c
acquireCtx_keepData(c, req, h) ==
    [c EXCEPT !.Writer = req, !.Request = req, !.handlers = MakeSlice(h),
              !.index = -1, !.aborted = FALSE, !.params = EmptyMap]
acquireCtx(c, req, h) ==
    [c EXCEPT !.Writer = req, !.Request = req, !.handlers = MakeSlice(h),
              !.index = -1, !.aborted = FALSE, !.params = EmptyMap,
              !.data = EmptyMap]

\* releaseCtx before pool.Put
releaseCtx(c) == [c EXCEPT !.handlers = NilSlice, !.Writer = 0, !.Request = 0]

\* maps.Copy(dst, src)
mapsCopy(dst, src) ==
    [k \in DOMAIN dst \cup DOMAIN src |-> IF k \in DOMAIN src THEN src[k] ELSE dst[k]]

\* the chain ServeHTTP runs on a lookup miss
notFoundChain_withGlobal(nf, mws) == mws \o <<nf>>
notFoundChain(nf, mws) == <<nf>>

\* what NotFound stores for its argument
notFoundHandler_keepNil(handler) == handler
notFoundHandler(handler) ==
    IF handler = NilHandler THEN DefaultNotFound ELSE handler

\* c.Set(key, value)
Set_clearAbort(c, key, value) ==
    [c EXCEPT !.data = MapSet(c.data, key, value), !.aborted = FALSE]
Set(c, key, value) == [c EXCEPT !.data = MapSet(c.data, key, value)]

\* c.Abort()
Abort(c) == [c EXCEPT !.aborted = TRUE]

\* the activation of ServeHTTP's own call of ctx.Next()
ServeFrame == [idx |-> -1, h |-> <<"serve", 0>>, nexts |-> 0, pc |-> "next"]

\* a ServeHTTP call: pc is "idle" (none in progress), "running", "done"
\* (about to return) or "panicked" (ended by a panic); stack holds the
\* activations of the handlers entered and not yet left, innermost last, above
\* ServeHTTP's own. The other fields record what the call did: the indexes
\* invoked and those returned from, in order; the Context as acquireCtx
\* returned it and whether it came dirty from the pool; whether a handler
\* called Next after Abort (noop) or a second time (again); the panics raised
\* and caught; the number of handlers invoked when Abort was called and when
\* the request's context became done; the indexes of the handlers to which a
\* call of Next has returned; the index of the handler whose panic Recover
\* caught last
NoDispatch ==
    [pc |-> "idle", ctx |-> 0, req |-> 0, method |-> "", path |-> <<>>,
     found |-> FALSE, chain |-> <<>>, cancelled |-> FALSE, stack |-> <<>>,
     status |-> 0, body |-> "",
     dirty |-> FALSE, acquired |-> newContext,
     invoked |-> <<>>, completed |-> <<>>, released |-> 0,
     noop |-> FALSE, again |-> FALSE, panics |-> 0, caught |-> 0,
     abortAt |-> -1, cancelAt |-> -1, nextDone |-> {}, panicAt |-> -1]

Top(d) == d.stack[Len(d.stack)]
SetTop(d, f) == [d EXCEPT !.stack = [d.stack EXCEPT ![Len(d.stack)] = f]]
Pop(d) == [d EXCEPT !.stack = SubSeq(d.stack, 1, Len(d.stack) - 1)]

\* the innermost activation of Recover on the stack, 0 if none
RecoverDepth(stack) ==
    LET at == {i \in 1..Len(stack) : stack[i].h = RecoverMw}
    IN IF at = {} THEN 0 ELSE CHOOSE i \in at : \A j \in at : j <= i

RECURSIVE loop(_, _), invoke(_, _), callNext(_, _), nextReturns(_, _)
RECURSIVE handlerReturns(_, _), panicFrom(_, _)

\* a panic raised in the innermost activation: the deferred function of the
\* nearest Recover below catches it, answers 500, and Recover returns; with
\* no Recover on the stack the panic leaves ServeHTTP before releaseCtx
panicFrom(d, c) ==
    LET depth == RecoverDepth(d.stack)
    IN IF depth = 0
       THEN [d |-> [d EXCEPT !.pc = "panicked", !.stack = <<>>], c |-> c]
       ELSE handlerReturns(
                [d EXCEPT !.stack = SubSeq(d.stack, 1, depth),
                          !.caught = d.caught + 1,
                          !.panicAt = Top(d).idx,
                          !.status = 500, !.body = InternalErrorBody],
                c)

\* c.handlers[c.index](c)
invoke(d, c) ==
    IF c.index < 0 \/ c.index >= Len(c.handlers.elems)
    THEN panicFrom([d EXCEPT !.panics = d.panics + 1], c)
    ELSE LET h == c.handlers.elems[c.index + 1]
             d1 == [d EXCEPT !.stack = Append(d.stack,
                                 [idx |-> c.index, h |-> h, nexts |-> 0, pc |-> "run"]),
                             !.invoked = Append(d.invoked, c.index)]
         IN IF h = RecoverMw THEN callNext(d1, c)
            ELSE IF h = DefaultNotFound
            THEN handlerReturns([d1 EXCEPT !.status = 404, !.body = NotFoundBody], c)
            ELSE [d |-> d1, c |-> c]

\* the head of the loop of Next
loop_ignoreCancel(d, c) ==
    IF c.index < Int8(Len(c.handlers.elems)) /\ ~c.aborted
    THEN invoke(d, c)
    ELSE nextReturns(d, c)
loop(d, c) ==
    IF c.index < Int8(Len(c.handlers.elems)) /\ ~c.aborted /\ ~d.cancelled
    THEN invoke(d, c)
    ELSE nextReturns(d, c)

\* the innermost activation calls c.Next()
callNext_ignoreAbort(d, c) ==
    loop(SetTop(d, [Top(d) EXCEPT !.pc = "next", !.nexts = @ + 1]),
         [c EXCEPT !.index = Int8(c.index + 1)])
callNext_fromOwnIndex(d, c) ==
    IF c.aborted
    THEN nextReturns(SetTop(d, [Top(d) EXCEPT !.pc = "next", !.nexts = @ + 1]), c)
    ELSE loop(SetTop(d, [Top(d) EXCEPT !.pc = "next", !.nexts = @ + 1]),
              [c EXCEPT !.index = Int8(Top(d).idx + 1)])
callNext(d, c) ==
    IF c.aborted
    THEN nextReturns(SetTop(d, [Top(d) EXCEPT !.pc = "next", !.nexts = @ + 1]), c)
    ELSE loop(SetTop(d, [Top(d) EXCEPT !.pc = "next", !.nexts = @ + 1]),
              [c EXCEPT !.index = Int8(c.index + 1)])

\* the call of Next made by the innermost activation returns: ServeHTTP
\* goes on to releaseCtx, Recover returns, any other handler runs on
nextReturns_rewind(d, c) ==
    IF Top(d).h = ServeFrame.h
    THEN [d |-> [d EXCEPT !.pc = "done", !.stack = <<>>, !.released = d.released + 1],
          c |-> releaseCtx(c)]
    ELSE IF Top(d).h = RecoverMw
    THEN handlerReturns([d EXCEPT !.nextDone = @ \cup {Top(d).idx}], c)
    ELSE [d |-> SetTop([d EXCEPT !.nextDone = @ \cup {Top(d).idx}],
                       [Top(d) EXCEPT !.pc = "run"]),
          c |-> [c EXCEPT !.index = Top(d).idx]]
nextReturns(d, c) ==
    IF Top(d).h = ServeFrame.h
    THEN [d |-> [d EXCEPT !.pc = "done", !.stack = <<>>, !.released = d.released + 1],
          c |-> releaseCtx(c)]
    ELSE IF Top(d).h = RecoverMw
    THEN handlerReturns([d EXCEPT !.nextDone = @ \cup {Top(d).idx}], c)
    ELSE [d |-> SetTop([d EXCEPT !.nextDone = @ \cup {Top(d).idx}],
                       [Top(d) EXCEPT !.pc = "run"]),
          c |-> c]

\* the innermost handler returns into the loop of the Next that invoked it
handlerReturns_skip(d, c) ==
    loop([Pop(d) EXCEPT !.completed = Append(d.completed, Top(d).idx)],
         [c EXCEPT !.index = Int8(c.index + 2)])
handlerReturns(d, c) ==
    loop([Pop(d) EXCEPT !.completed = Append(d.completed, Top(d).idx)],
         [c EXCEPT !.index = Int8(c.index + 1)])

ServeIdle ==
    /\ notFound = DefaultNotFound
    /\ pool = {}
    /\ ctxs = <<>>
    /\ disp = NoDispatch
    /\ nreq = 0

GroupIdle ==
    /\ groups = <<>>
    /\ groupRaw = <<>>
    /\ gregs = 0

\* newRouter: no tree, no middleware
Init == SyncIdle /\ RegexIdle /\ ValIdle /\ RouterInit /\ NormIdle /\ GroupIdle /\ ServeIdle

\* ---------------------------------------------------------------- actions
\* a registration verb of routerImpl: addRoute(method, path, r.middlewares, h)
Register(method, path, h) ==
    /\ regs < MaxRegs
    /\ LET r == addRoute(trees, method, path, middlewares, h)
       IN /\ trees' = r.trees
          /\ registered' =
                 IF r.panic THEN registered
                 ELSE MapSet(registered, <<method, normalizePath(path)>>,
                             [mws |-> middlewares, handlers |-> h])
          /\ last' = [NoCall EXCEPT !.op = "register", !.method = method, !.path = path,
                                    !.args = h, !.mws = middlewares, !.panic = r.panic]
    /\ regs' = regs + 1
    /\ UNCHANGED <<middlewares, uses>>
    /\ UNCHANGED <<syncVars, regexVars, valVars, normVars, groupVars, serveVars>>

\* routerImpl.GET
GET == \E path \in RawPaths : Register("GET", path, <<Handler(regs + 1)>>)

\* routerImpl.POST
POST == \E path \in RawPaths : Register("POST", path, <<Handler(regs + 1)>>)

\* routerImpl.Use
Use ==
    /\ uses < MaxUse
    /\ LET m == <<Middleware(uses + 1)>>
       IN /\ middlewares' = middlewares \o m
          /\ last' = [NoCall EXCEPT !.op = "use", !.args = m, !.mws = middlewares]
    /\ uses' = uses + 1
    /\ UNCHANGED <<trees, registered, regs>>
    /\ UNCHANGED <<syncVars, regexVars, valVars, normVars, groupVars, serveVars>>

\* The lookups ServeHTTP makes, r.search(req.Method, req.URL.Path), one for
\* every request of Methods \X Requests against the router as it stands.
Lookup ==
    /\ last' = [NoCall EXCEPT !.op = "search",
                              !.result = [rq \in Methods \X Requests |->
                                             search(trees, rq[1], rq[2])]]
    /\ UNCHANGED <<trees, middlewares, registered, regs, uses>>
    /\ UNCHANGED <<syncVars, regexVars, valVars, normVars, groupVars, serveVars>>

Next == GET \/ POST \/ Use \/ Lookup

Spec == Init /\ [][Next]_vars

\* ------------------------------------------------ registration via groups
\* routerImpl.Group
NewGroup ==
    /\ Len(groups) < MaxGroups
    /\ \E prefix \in GroupPrefixes :
          /\ groups' = Append(groups, routerGroup(prefix, <<GroupMw(Len(groups) + 1)>>))
          /\ groupRaw' = Append(groupRaw, <<prefix>>)
          /\ last' = [NoCall EXCEPT !.op = "group", !.path = prefix,
                                    !.group = Len(groups) + 1]
    /\ UNCHANGED <<trees, middlewares, registered, regs, uses, gregs>>
    /\ UNCHANGED <<syncVars, regexVars, valVars, normVars, serveVars>>

\* group.Group
SubGroup ==
    /\ Len(groups) < MaxGroups
    /\ \E g \in 1..Len(groups), sub \in GroupPrefixes :
          /\ groups' = Append(groups, groupGroup(groups, g, sub, <<GroupMw(Len(groups) + 1)>>))
          /\ groupRaw' = Append(groupRaw, Append(groupRaw[g], sub))
          /\ last' = [NoCall EXCEPT !.op = "group", !.path = sub,
                                    !.group = Len(groups) + 1]
    /\ UNCHANGED <<trees, middlewares, registered, regs, uses, gregs>>
    /\ UNCHANGED <<syncVars, regexVars, valVars, normVars, serveVars>>

\* group.GET: g.add(http.MethodGet, path, h...)
GroupGET ==
    /\ gregs < MaxGroupRegs
    /\ \E g \in 1..Len(groups), path \in GroupPaths :
          LET h == <<Handler(gregs + 1)>>
              r == groupAdd(trees, groups, g, middlewares, "GET", path, h)
          IN /\ trees' = r.trees
             /\ registered' =
                    IF r.panic THEN registered
                    ELSE MapSet(registered, <<"GET", normalizePath(fullPath(groups, g, path))>>,
                                [mws |-> collectMiddlewares(groups, g, middlewares),
                                 handlers |-> h])
             /\ last' = [NoCall EXCEPT !.op = "gadd", !.method = "GET", !.path = path,
                                       !.args = h, !.mws = middlewares, !.panic = r.panic,
                                       !.group = g]
    /\ gregs' = gregs + 1
    /\ UNCHANGED <<middlewares, regs, uses, groups, groupRaw>>
    /\ UNCHANGED <<syncVars, regexVars, valVars, normVars, serveVars>>

GroupNext == Use \/ NewGroup \/ SubGroup \/ GroupGET

SpecGroup == Init /\ [][GroupNext]_vars

\* ------------------------------- router verbs and group verbs together
\* the groups of the application: Group("/u", g1) and Group("/:i", g2)
AddGroups ==
    << routerGroup(<<"/", "u">>, <<GroupMw(1)>>),
       routerGroup(<<"/", ":", "i">>, <<GroupMw(2)>>) >>

AddInit ==
    /\ SyncIdle
    /\ RegexIdle
    /\ ValIdle
    /\ RouterInit
    /\ NormIdle
    /\ ServeIdle
    /\ groups = AddGroups
    /\ groupRaw = << << <<"/", "u">> >>, << <<"/", ":", "i">> >> >>
    /\ gregs = 0

AddNext == GET \/ GroupGET

SpecAdd == AddInit /\ [][AddNext]_vars

\* ------------------------------------------- normalizePath on its own
NormInit ==
    /\ SyncIdle
    /\ RegexIdle
    /\ ValIdle
    /\ RouterInit
    /\ GroupIdle
    /\ ServeIdle
    /\ raw \in StringsUpTo(MaxLen)
    /\ once = <<>>
    /\ twice = <<>>
    /\ npc = "in"

\* path = normalizePath(path)
Normalize ==
    /\ npc = "in"
    /\ once' = normalizePath(raw)
    /\ npc' = "once"
    /\ UNCHANGED <<raw, twice>>
    /\ UNCHANGED <<syncVars, regexVars, valVars, routerVars, groupVars, serveVars>>

\* the result is normalised again (group.add and insert both normalise)
Renormalize ==
    /\ npc = "once"
    /\ twice' = normalizePath(once)
    /\ npc' = "twice"
    /\ UNCHANGED <<raw, once>>
    /\ UNCHANGED <<syncVars, regexVars, valVars, routerVars, groupVars, serveVars>>

NormNext == Normalize \/ Renormalize

SpecNorm == NormInit /\ [][NormNext]_vars

\* ------------------------------------------------------------ dispatch
\* the application served: New(), which installs Recover as the first
\* global middleware, then
\*   GET("/u/:i", h1, h2, h3), GET("/u", h1), Group("a", g1).GET("b", h2)
AppMiddlewares == <<RecoverMw>>
AppGroups == <<routerGroup(<<"a">>, <<GroupMw(1)>>)>>
ServeRoutes ==
    << [method |-> "GET", path |-> <<"/", "u", "/", ":", "i">>, group |-> NoGroup,
        handlers |-> <<Handler(1), Handler(2), Handler(3)>>],
       [method |-> "GET", path |-> <<"/", "u">>, group |-> NoGroup,
        handlers |-> <<Handler(1)>>],
       [method |-> "GET", path |-> <<"b">>, group |-> 1,
        handlers |-> <<Handler(2)>>] >>

\* the trees after the first n registrations of routes
RECURSIVE AppTrees(_, _)
AppTrees(routes, n) ==
    IF n = 0 THEN [m \in {} |-> <<>>]
    ELSE LET rt == routes[n]
         IN IF rt.group = NoGroup
            THEN addRoute(AppTrees(routes, n - 1), rt.method, rt.path, AppMiddlewares,
                          rt.handlers).trees
            ELSE groupAdd(AppTrees(routes, n - 1), AppGroups, rt.group, AppMiddlewares,
                          rt.method, rt.path, rt.handlers).trees

RECURSIVE AppRegistered(_, _)
AppRegistered(routes, n) ==
    IF n = 0 THEN EmptyMap
    ELSE LET rt == routes[n]
         IN IF rt.group = NoGroup
            THEN MapSet(AppRegistered(routes, n - 1), <<rt.method, normalizePath(rt.path)>>,
                        [mws |-> AppMiddlewares, handlers |-> rt.handlers])
            ELSE MapSet(AppRegistered(routes, n - 1),
                        <<rt.method, normalizePath(fullPath(AppGroups, rt.group, rt.path))>>,
                        [mws |-> collectMiddlewares(AppGroups, rt.group, AppMiddlewares),
                         handlers |-> rt.handlers])

\* requests handed to ServeHTTP: method and URL path
ServeRequests ==
    { <<"GET", <<"/", "u", "/", "1">>>>,            \* route with a parameter
      <<"GET", <<"/", "u">>>>,                      \* route without parameter
      <<"GET", <<"/", "a", "/", "b">>>>,            \* route of the group
      <<"GET", <<"/", "x">>>>,                      \* unmatched path
      <<"GET", <<"/", "a">>>>,                      \* non-terminal node
      <<"POST", <<"/", "u">>>> }                    \* method without a tree

ServeSetup(routes) ==
    /\ trees = AppTrees(routes, Len(routes))
    /\ middlewares = AppMiddlewares
    /\ registered = AppRegistered(routes, Len(routes))
    /\ last = NoCall
    /\ regs = Cardinality({n \in 1..Len(routes) : routes[n].group = NoGroup})
    /\ uses = 1
    /\ groups = AppGroups
    /\ groupRaw = << << <<"a">> >> >>
    /\ gregs = Len(routes) - regs
    /\ SyncIdle
    /\ RegexIdle
    /\ ValIdle
    /\ NormIdle
    /\ notFound = DefaultNotFound
    /\ pool = {}
    /\ ctxs = <<>>
    /\ disp = NoDispatch
    /\ nreq = 0

ServeInit == ServeSetup(ServeRoutes)

\* the Context the running ServeHTTP call holds
Ctx == ctxs[disp.ctx]

\* the handler whose code is running
Running == disp.pc = "running"

\* the Context objects and the pool once the ServeHTTP call holding Context
\* c is in state d: a call that returned has put c back with pool.Put; the
\* Context of a call left by a panic is referenced by nothing
Contexts(d, c) == IF d.pc = "panicked" THEN <<>> ELSE <<c>>
Pooled(d) == IF d.pc = "done" THEN {1} ELSE {}

\* a Context that carries everything a request can leave behind
Dirty(c) == c.params # EmptyMap /\ c.data # EmptyMap /\ c.aborted /\ c.index > 0

\* the method-tree map once search has read it: a method that has no entry
\* has none afterwards either
searchTrees_getTree(ts, method) == getTree(ts, method)
searchTrees(ts, method) == ts

\* a step of the running dispatch that leaves it as r.d with its Context as r.c
Step(r) ==
    /\ disp' = r.d
    /\ ctxs' = Contexts(r.d, r.c)
    /\ pool' = Pooled(r.d)
    /\ UNCHANGED <<notFound, nreq>>
    /\ UNCHANGED <<syncVars, regexVars, valVars, normVars, routerVars, groupVars>>

\* ServeHTTP up to the first handler that runs application code: search,
\* acquireCtx on what pool.Get returns (the pooled Context, or a new one
\* when the pool is empty or its content has been collected), maps.Copy of
\* the parameters, ctx.Next(); done tells whether the request's context is
\* already done
Serve(rq, done, got) ==
    /\ disp.pc = "idle"
    /\    LET res == search(trees, rq[1], rq[2])
              found == ~res.handlers.nil
              chain == IF found THEN res.handlers.elems
                       ELSE notFoundChain(notFound, middlewares)
              req == IF nreq = 1 THEN 2 ELSE 1
              acq == acquireCtx(got, req, chain)
              c0 == IF found THEN [acq EXCEPT !.params = mapsCopy(acq.params, res.params)]
                    ELSE acq
              d0 == [NoDispatch EXCEPT !.pc = "running", !.ctx = 1, !.req = req,
                                       !.method = rq[1], !.path = rq[2],
                                       !.found = found, !.chain = chain,
                                       !.cancelled = done,
                                       !.cancelAt = IF done THEN 0 ELSE -1,
                                       !.stack = <<ServeFrame>>,
                                       !.dirty = Dirty(got), !.acquired = acq]
              r == callNext(d0, c0)
          IN /\ disp' = r.d
             /\ ctxs' = Contexts(r.d, r.c)
             /\ pool' = Pooled(r.d)
             /\ nreq' = req
    /\ trees' = searchTrees(trees, rq[1])
    /\ UNCHANGED <<notFound, middlewares, registered, last, regs, uses>>
    /\ UNCHANGED <<syncVars, regexVars, valVars, normVars, groupVars>>

ServeHTTP ==
    \E rq \in ServeRequests, done \in BOOLEAN, got \in {newContext} \cup {ctxs[i] : i \in pool} :
        Serve(rq, done, got)

\* the running handler calls c.Next()
HandlerNext ==
    /\ Running
    /\ Top(disp).nexts < MaxNextCalls
    /\ Step(callNext([disp EXCEPT !.noop = @ \/ Ctx.aborted,
                                  !.again = @ \/ Top(disp).nexts > 0], Ctx))

\* the running handler calls c.Abort()
HandlerAbort ==
    /\ Running
    /\ ~Ctx.aborted
    /\ Step([d |-> [disp EXCEPT !.abortAt = Len(disp.invoked)],
             c |-> Abort(Ctx)])

\* the running handler calls c.Set("k", v), v a value of its own request
HandlerSet ==
    /\ Running
    /\ "k" \notin DOMAIN Ctx.data
    /\ Step([d |-> disp, c |-> Set(Ctx, "k", disp.req)])

\* the running handler panics
HandlerPanic ==
    /\ Running
    /\ Step(panicFrom([disp EXCEPT !.panics = @ + 1], Ctx))

\* the running handler returns
HandlerReturn ==
    /\ Running
    /\ Step(handlerReturns(disp, Ctx))

\* the request's context becomes done while a handler runs
Cancel ==
    /\ Running
    /\ ~disp.cancelled
    /\ disp' = [disp EXCEPT !.cancelled = TRUE, !.cancelAt = Len(disp.invoked)]
    /\ UNCHANGED <<notFound, pool, ctxs, nreq>>
    /\ UNCHANGED <<syncVars, regexVars, valVars, normVars, routerVars, groupVars>>

\* control leaves ServeHTTP, by its return or with the panic that ended it
Return ==
    /\ disp.pc \in {"done", "panicked"}
    /\ disp' = NoDispatch
    /\ UNCHANGED <<notFound, pool, ctxs, nreq>>
    /\ UNCHANGED <<syncVars, regexVars, valVars, normVars, routerVars, groupVars>>

\* NotFound(handler), between two requests
NotFound ==
    /\ disp.pc = "idle"
    /\ \E handler \in {NilHandler, CustomNotFound} :
          /\ notFound' = notFoundHandler(handler)
          /\ last' = [NoCall EXCEPT !.op = "notfound", !.args = <<handler>>]
    /\ UNCHANGED <<pool, ctxs, disp, nreq>>
    /\ UNCHANGED <<trees, middlewares, registered, regs, uses>>
    /\ UNCHANGED <<syncVars, regexVars, valVars, normVars, groupVars>>

ServeNext ==
    \/ ServeHTTP
    \/ HandlerNext
    \/ HandlerAbort
    \/ HandlerSet
    \/ HandlerPanic
    \/ HandlerReturn
    \/ Cancel
    \/ Return
    \/ NotFound

SpecServe == ServeInit /\ [][ServeNext]_vars

\* ------------------------------------------------- long chains
\* the application: New(), then GET("/u", ...) with as many handlers as make
\* a chain of n with Recover: the repeating handler alone for the shortest
\* chain, Logger() n - 1 times otherwise
MinChain == 2
ChainLengths == {MinChain, 32, 63, 64, 65, 127, MaxChain}
CursorRoutes(n) ==
    << [method |-> "GET", path |-> <<"/", "u">>, group |-> NoGroup,
        handlers |-> IF n = MinChain THEN <<RepeatHandler>>
                     ELSE [i \in 1..n - 1 |-> LoggerMw]] >>

CursorInit == \E n \in ChainLengths : ServeSetup(CursorRoutes(n))

\* ServeHTTP for GET /u, the context of the request not done
CursorServe ==
    /\ nreq = 0
    /\ Serve(<<"GET", <<"/", "u">>>>, FALSE, newContext)

\* Logger: c.Next()
LoggerNext ==
    /\ Running
    /\ Top(disp).h = LoggerMw
    /\ Top(disp).nexts = 0
    /\ Step(callNext(disp, Ctx))

\* Logger: the lines after c.Next() and the return
LoggerReturn ==
    /\ Running
    /\ Top(disp).h = LoggerMw
    /\ Top(disp).nexts = 1
    /\ Step(handlerReturns(disp, Ctx))

\* the repeating handler calls c.Next()
RepeatNext ==
    /\ Running
    /\ Top(disp).h = RepeatHandler
    /\ Top(disp).nexts < MaxRepeat
    /\ Step(callNext([disp EXCEPT !.again = @ \/ Top(disp).nexts > 0], Ctx))

\* the repeating handler returns
RepeatReturn ==
    /\ Running
    /\ Top(disp).h = RepeatHandler
    /\ Step(handlerReturns(disp, Ctx))

CursorNext ==
    \/ CursorServe
    \/ LoggerNext
    \/ LoggerReturn
    \/ RepeatNext
    \/ RepeatReturn
    \/ Return

SpecCursor == CursorInit /\ [][CursorNext]_vars

\* ----------------------------------------------------------- validator
\* Go values handed to the validator: a string (its characters), an int, a
\* struct (its fields in declaration order) or a pointer to a value
StringValue(s) == [kind |-> "string", s |-> s, i |-> 0, fields |-> <<>>, isNil |-> FALSE]
IntValue(i) == [kind |-> "int", s |-> <<>>, i |-> i, fields |-> <<>>, isNil |-> FALSE]
StructValue(fields) == [kind |-> "struct", s |-> <<>>, i |-> 0, fields |-> fields, isNil |-> FALSE]
PtrValue(fields) == [kind |-> "ptr", s |-> <<>>, i |-> 0, fields |-> fields, isNil |-> FALSE]
NilPtr == [kind |-> "ptr", s |-> <<>>, i |-> 0, fields |-> <<>>, isNil |-> TRUE]

\* a struct field: its Go name, its json and validate tags, its value
Field(name, json, validate, value) ==
    [Name |-> name, json |-> json, validate |-> validate, value |-> value]

\* strings.ToLower on the field names used here
ToLower(name) ==
    CASE name = "Name" -> "name"
      [] name = "Age" -> "age"
      [] name = "Email" -> "email"
      [] name = "Address" -> "address"
      [] name = "Street" -> "street"
      [] name = "City" -> "city"
      [] OTHER -> name

\* strings.Split(s, sep) and strings.SplitN(s, sep, 2) for a one-character sep
RECURSIVE Split(_, _)
Split(s, sep) ==
    IF \A i \in 1..Len(s) : s[i] # sep THEN <<s>>
    ELSE LET i == CHOOSE k \in 1..Len(s) :
                      s[k] = sep /\ \A j \in 1..(k - 1) : s[j] # sep
         IN <<SubSeq(s, 1, i - 1)>> \o Split(SubSeq(s, i + 1, Len(s)), sep)
SplitN2(s, sep) ==
    IF \A i \in 1..Len(s) : s[i] # sep THEN <<s>>
    ELSE LET i == CHOOSE k \in 1..Len(s) :
                      s[k] = sep /\ \A j \in 1..(k - 1) : s[j] # sep
         IN <<SubSeq(s, 1, i - 1), SubSeq(s, i + 1, Len(s))>>

\* ParseTag: "required,min=18" -> the rules {required} {min 18}
ParseTag(tag) ==
    IF tag = <<>> \/ tag = <<"-">> THEN <<>>
    ELSE LET parts == Split(tag, ",")
         IN [n \in 1..Len(parts) |->
                LET part == TrimSpace(parts[n])
                IN IF \E i \in 1..Len(part) : part[i] = "="
                   THEN LET kv == SplitN2(part, "=")
                        IN [Name |-> kv[1], Param |-> kv[2]]
                   ELSE [Name |-> part, Param |-> <<>>]]

\* the rule names and the tags used here
RuleRequired == <<"r", "e", "q", "u", "i", "r", "e", "d">>
RuleMin == <<"m", "i", "n">>
RuleMax == <<"m", "a", "x">>
RuleLen == <<"l", "e", "n">>
RuleEmail == <<"e", "m", "a", "i", "l">>
TagRequired == <<"r", "e", "q", "u", "i", "r", "e", "d">>
TagName == <<"r", "e", "q", "u", "i", "r", "e", "d", ",", "l", "e", "n", "=", "5">>
TagAge == <<"r", "e", "q", "u", "i", "r", "e", "d", ",", "m", "i", "n", "=", "1", "8", ",", "m", "a", "x", "=", "1", "0", "0">>
TagEmail == <<"r", "e", "q", "u", "i", "r", "e", "d", ",", "e", "m", "a", "i", "l">>
\* a tag that names the required rule after another rule: "len=5,required"
TagLenFirst == <<"l", "e", "n", "=", "5", ",", "r", "e", "q", "u", "i", "r", "e", "d">>

\* strconv.Atoi on a string of decimal digits; -1 stands for the error
Digits == [c \in {"0", "1", "2", "3", "4", "5", "6", "7", "8", "9"} |->
              CASE c = "0" -> 0 [] c = "1" -> 1 [] c = "2" -> 2 [] c = "3" -> 3
                [] c = "4" -> 4 [] c = "5" -> 5 [] c = "6" -> 6 [] c = "7" -> 7
                [] c = "8" -> 8 [] c = "9" -> 9]
RECURSIVE Atoi(_)
Atoi(s) ==
    IF s = <<>> \/ \E i \in 1..Len(s) : s[i] \notin DOMAIN Digits THEN -1
    ELSE IF Len(s) = 1 THEN Digits[s[1]]
    ELSE 10 * Atoi(SubSeq(s, 1, Len(s) - 1)) + Digits[s[Len(s)]]

\* messages[EN] and GetMessage: the text, with the parameter it is formatted with
NoMessage == <<>>
GetMessage(rule, param) ==
    CASE rule = "required" -> <<"This field is required">>
      [] rule = "min" -> <<"This field must be at least %v", param>>
      [] rule = "max" -> <<"This field must be at most %v", param>>
      [] rule = "len" -> <<"This field must be exactly %v characters", param>>
      [] rule = "email" -> <<"This field must be a valid email address">>
      [] OTHER -> <<"Invalid validation rule">>

\* ValidationErrors.Add
ErrsAdd(errs, field, message) ==
    IF field \in DOMAIN errs THEN [errs EXCEPT ![field] = Append(@, message)]
    ELSE MapSet(errs, field, <<message>>)

\* isEmpty: nil, a string of length 0 or a nil pointer
isEmpty(value) ==
    CASE value.kind = "string" -> Len(value.s) = 0
      [] value.kind = "ptr" -> value.isNil
      [] OTHER -> FALSE

\* toInt: an integer, or a string Atoi accepts
toIntOk(value) ==
    \/ value.kind = "int"
    \/ value.kind = "string" /\ Atoi(value.s) # -1
toInt(value) == IF value.kind = "int" THEN value.i ELSE Atoi(value.s)

checkMin(value, param) ==
    LET p == Atoi(param)
    IN IF p = -1 THEN NoMessage
       ELSE IF toIntOk(value) /\ toInt(value) < p THEN GetMessage("min", p)
       ELSE IF value.kind = "string" /\ Len(value.s) < p THEN GetMessage("min", p)
       ELSE NoMessage

checkMax(value, param) ==
    LET p == Atoi(param)
    IN IF p = -1 THEN NoMessage
       ELSE IF toIntOk(value) /\ toInt(value) > p THEN GetMessage("max", p)
       ELSE IF value.kind = "string" /\ Len(value.s) > p THEN GetMessage("max", p)
       ELSE NoMessage

checkLen(value, param) ==
    LET p == Atoi(param)
    IN IF p = -1 THEN <<"Invalid length parameter">>
       ELSE IF value.kind = "string"
       THEN IF Len(value.s) # p THEN GetMessage("len", p) ELSE NoMessage
       ELSE <<"Unsupported type for len check">>

\* the email pattern ^[a-zA-Z0-9._%+-]+@[a-zA-Z0-9.-]+\.[a-zA-Z]{2,}$ over
\* the characters used here
Letters == {"a", "b", "c", "d", "e"}
LocalChars == Letters \cup DOMAIN Digits \cup {".", "-"}
isValidEmail(s) ==
    \E at \in 1..Len(s), dot \in 1..Len(s) :
        /\ s[at] = "@"
        /\ s[dot] = "."
        /\ 1 < at
        /\ at + 1 < dot
        /\ dot + 2 <= Len(s)
        /\ \A i \in 1..(at - 1) : s[i] \in LocalChars
        /\ \A i \in (at + 1)..(dot - 1) : s[i] \in LocalChars
        /\ \A i \in (dot + 1)..Len(s) : s[i] \in Letters

\* checkRule for the rules required, min, max, len and email
checkRule(value, rule) ==
    CASE rule.Name = RuleRequired ->
             IF isEmpty(value) THEN GetMessage("required", <<>>) ELSE NoMessage
      [] rule.Name = RuleMin -> checkMin(value, rule.Param)
      [] rule.Name = RuleMax -> checkMax(value, rule.Param)
      [] rule.Name = RuleLen -> checkLen(value, rule.Param)
      [] rule.Name = RuleEmail ->
             IF value.kind = "string" /\ value.s # <<>> /\ ~isValidEmail(value.s)
             THEN GetMessage("email", <<>>) ELSE NoMessage
      [] OTHER -> NoMessage

\* the loop over the rules of one field, from rule n on
RECURSIVE rulesLoop(_, _, _, _, _)
rulesLoop(errs, fieldName, value, rules, n) ==
    IF n > Len(rules) THEN errs
    ELSE IF rules[n].Name = RuleRequired /\ isEmpty(value)
    THEN ErrsAdd(errs, fieldName, GetMessage("required", <<>>))
    ELSE LET errMsg == checkRule(value, rules[n])
         IN rulesLoop(IF errMsg # NoMessage THEN ErrsAdd(errs, fieldName, errMsg) ELSE errs,
                      fieldName, value, rules, n + 1)

\* the loop over the fields of the struct, from field i on (every field of
\* the test types is exported)
RECURSIVE fieldsLoop(_, _, _)
fieldsLoop(errs, fields, i) ==
    IF i > Len(fields) THEN errs
    ELSE LET field == fields[i]
             fieldName == IF field.json = "" \/ field.json = "-"
                          THEN ToLower(field.Name) ELSE field.json
         IN IF field.validate = <<>> THEN fieldsLoop(errs, fields, i + 1)
            ELSE fieldsLoop(rulesLoop(errs, fieldName, field.value,
                                      ParseTag(field.validate), 1),
                            fields, i + 1)

ValidateStruct(obj) ==
    IF obj.kind = "struct" \/ (obj.kind = "ptr" /\ ~obj.isNil)
    THEN fieldsLoop(EmptyMap, obj.fields, 1)
    ELSE ErrsAdd(EmptyMap, "", <<"must be a struct or struct pointer">>)

\* the values of the test types: strings, ages, and the structs Address, User
\* and UserAddress of validator_test.go
TestStrings == { <<>>, <<"a", "b">>, <<"a", "b", "c", "d", "e">>, <<"a", "@", "b", ".", "c", "c">>, <<"2", "5">> }
TestAges == {0, 17, 25, 101}
Address(street, city) ==
    StructValue(<< Field("Street", "street", TagRequired, StringValue(street)),
                   Field("City", "city", TagRequired, StringValue(city)) >>)
UserFields(name, age, email) ==
    << Field("Name", "name", TagName, StringValue(name)),
       Field("Age", "age", TagAge, IntValue(age)),
       Field("Email", "email", TagEmail, StringValue(email)) >>
UserAddressFields(name, age, email, address) ==
    UserFields(name, age, email) \o
        << Field("Address", "address", TagRequired, address) >>
TestStreets == { <<>>, <<"a", "b">> }
\* struct { Code string `json:"code" validate:"len=5,required"` }
CodeFields(code) == << Field("Code", "code", TagLenFirst, StringValue(code)) >>
TestObjects ==
    {PtrValue(CodeFields(c)) : c \in TestStrings} \cup
    {PtrValue(UserFields(n, a, e)) : n \in TestStrings, a \in TestAges, e \in TestStrings}
    \cup {PtrValue(UserAddressFields(n, 25, e, Address(s, c))) :
              n \in {<<>>, <<"a", "b", "c", "d", "e">>}, e \in {<<"a", "b">>, <<"a", "@", "b", ".", "c", "c">>},
              s \in TestStreets, c \in TestStreets}
    \cup {StructValue(UserAddressFields(<<"a", "b", "c", "d", "e">>, 25, <<"a", "@", "b", ".", "c", "c">>, Address(s, c))) :
              s \in TestStreets, c \in TestStreets}
    \cup {NilPtr, StringValue(<<"a", "b">>), IntValue(25)}

ValInit ==
    /\ SyncIdle
    /\ RegexIdle
    /\ RouterInit
    /\ NormIdle
    /\ GroupIdle
    /\ ServeIdle
    /\ vobj \in TestObjects
    /\ verrs = EmptyMap
    /\ vpc = "in"

\* errs := v.ValidateStruct(obj)
Validate ==
    /\ vpc = "in"
    /\ verrs' = ValidateStruct(vobj)
    /\ vpc' = "out"
    /\ UNCHANGED vobj
    /\ UNCHANGED <<syncVars, regexVars, normVars, routerVars, groupVars, serveVars>>

ValNext == Validate

SpecValidate == ValInit /\ [][ValNext]_vars

\* ---------------------------------------------------------- regex cache
\* patterns handed to getCachedRegex; regexp.Compile accepts the first two
ValidPatterns == {"^a+$", "^b$"}
Patterns == ValidPatterns \cup {"a("}

\* regexp.Compile: a new instance, the n-th one, or an error
NoRegex == <<>>
Compile(pattern, n) ==
    IF pattern \in ValidPatterns THEN [re |-> <<pattern, n>>, err |-> FALSE]
    ELSE [re |-> NoRegex, err |-> TRUE]

\* re, ok := regexCache[pattern] under the read lock
cacheLookup(cache, pattern) ==
    IF pattern \in DOMAIN cache THEN [re |-> cache[pattern], ok |-> TRUE]
    ELSE [re |-> NoRegex, ok |-> FALSE]

\* re, ok := regexCache[pattern] again, under the write lock
lockedLookup_noRecheck(cache, pattern) == [re |-> NoRegex, ok |-> FALSE]
lockedLookup(cache, pattern) == cacheLookup(cache, pattern)

Goroutines == 1..MaxGoroutines
GoIdle == [pc |-> "idle", pattern |-> "", re |-> NoRegex, err |-> FALSE]

\* getCachedRegex returns (re, err) to goroutine g
Returns(g, re, err) ==
    /\ gor' = [gor EXCEPT ![g] = [pc |-> "idle", pattern |-> gor[g].pattern,
                                  re |-> re, err |-> err]]
    /\ returned' = MapSet(returned, gor[g].pattern,
                          (IF gor[g].pattern \in DOMAIN returned
                           THEN returned[gor[g].pattern] ELSE {})
                          \cup {[re |-> re, err |-> err]})

RegexInit ==
    /\ SyncIdle
    /\ ValIdle
    /\ RouterInit
    /\ NormIdle
    /\ GroupIdle
    /\ ServeIdle
    /\ regexCache = EmptyMap
    /\ regexCacheMu = [readers |-> 0, writer |-> 0]
    /\ gor = [g \in Goroutines |-> GoIdle]
    /\ compiled = 0
    /\ returned = EmptyMap

RegexOthers == UNCHANGED <<syncVars, valVars, normVars, routerVars, groupVars, serveVars>>

\* goroutine g calls getCachedRegex(pattern)
CallRegex(g) ==
    /\ gor[g].pc = "idle"
    /\ \E pattern \in Patterns :
          gor' = [gor EXCEPT ![g] = [GoIdle EXCEPT !.pc = "rlock", !.pattern = pattern]]
    /\ UNCHANGED <<regexCache, regexCacheMu, compiled, returned>>
    /\ RegexOthers

\* regexCacheMu.RLock()
RLock(g) ==
    /\ gor[g].pc = "rlock"
    /\ regexCacheMu.writer = 0
    /\ regexCacheMu' = [regexCacheMu EXCEPT !.readers = @ + 1]
    /\ gor' = [gor EXCEPT ![g].pc = "fast"]
    /\ UNCHANGED <<regexCache, compiled, returned>>
    /\ RegexOthers

\* the lookup under the read lock and RUnlock: a hit returns, a miss goes on
FastPath(g) ==
    /\ gor[g].pc = "fast"
    /\ regexCacheMu' = [regexCacheMu EXCEPT !.readers = @ - 1]
    /\ LET r == cacheLookup(regexCache, gor[g].pattern)
       IN IF r.ok THEN Returns(g, r.re, FALSE)
          ELSE gor' = [gor EXCEPT ![g].pc = "lock"] /\ UNCHANGED returned
    /\ UNCHANGED <<regexCache, compiled>>
    /\ RegexOthers

\* regexCacheMu.Lock()
Lock(g) ==
    /\ gor[g].pc = "lock"
    /\ regexCacheMu = [readers |-> 0, writer |-> 0]
    /\ regexCacheMu' = [regexCacheMu EXCEPT !.writer = g]
    /\ gor' = [gor EXCEPT ![g].pc = "slow"]
    /\ UNCHANGED <<regexCache, compiled, returned>>
    /\ RegexOthers

\* under the write lock: the second lookup, Compile, the store, and the
\* deferred Unlock
SlowPath(g) ==
    /\ gor[g].pc = "slow"
    /\ regexCacheMu' = [regexCacheMu EXCEPT !.writer = 0]
    /\ LET r == lockedLookup(regexCache, gor[g].pattern)
           c == Compile(gor[g].pattern, compiled + 1)
       IN IF r.ok
          THEN Returns(g, r.re, FALSE) /\ UNCHANGED <<regexCache, compiled>>
          ELSE IF c.err
          THEN Returns(g, NoRegex, TRUE) /\ UNCHANGED <<regexCache, compiled>>
          ELSE /\ regexCache' = MapSet(regexCache, gor[g].pattern, c.re)
               /\ compiled' = compiled + 1
               /\ Returns(g, c.re, FALSE)
    /\ RegexOthers

RegexNext ==
    \E g \in Goroutines :
        \/ CallRegex(g)
        \/ RLock(g)
        \/ FastPath(g)
        \/ Lock(g)
        \/ SlowPath(g)

SpecRegex == RegexInit /\ [][RegexNext]_vars

\* ------------------------------------------- claims on normalizePath
OnlyOf(s, c) == \A i \in 1..Len(s) : s[i] = c

\* C1: for every input string normalizePath returns a non-empty string that
\* starts with '/', contains no "//" and has no trailing '/' unless it is
\* exactly "/"; the empty string, whitespace-only strings and strings made
\* only of '/' return "/".
C1_NormalizedShape ==
    npc \in {"once", "twice"} =>
        /\ once # <<>>
        /\ once[1] = Slash
        /\ ~ContainsDouble(once)
        /\ (once = Root \/ once[Len(once)] # Slash)
        /\ (OnlyOf(raw, " ") \/ OnlyOf(raw, Slash) => once = Root)

\* a raw string with a missing leading slash, a doubled and a trailing slash
C1_Witness ==
    /\ npc = "once"
    /\ raw = <<"a", "/", "/", "/">>
    /\ once = <<"/", "a">>

\* C2: normalizePath is idempotent: normalizePath(normalizePath(p)) equals
\* normalizePath(p) for every input string p, whitespace next to a separator
\* included.
C2_Idempotent == npc = "twice" => twice = once

\* ------------------------------------------------- claims on routing
Served == last.op = "search"

\* the chain a registration stores: the middleware snapshot, then its handlers
ChainOf(reg) == MakeSlice(reg.mws \o reg.handlers)

Found(res) == ~res.handlers.nil

\* the segments of a normalized path ("/" has none)
Segments(norm) == IF norm = Root THEN <<>> ELSE SplitSlash(Tail(norm))

IsDynamic(segment) == segment # <<>> /\ segment[1] = ParamMarker

\* C3: registration and lookup are invariant under path normalization: a
\* route registered as (method, p) is found, with the chain of its last
\* registration, by every raw request path q with normalizePath(q) =
\* normalizePath(p), whichever raw spelling it was registered under.
C3_NormalizationInvariant ==
    Served =>
        \A key \in DOMAIN registered : \A q \in Requests :
            normalizePath(q) = key[2] =>
                last.result[<<key[1], q>>].handlers = ChainOf(registered[key])

\* "/u" was registered and is found under the spellings "/u/" and "//u"
C3_Witness ==
    /\ Served
    /\ <<"GET", <<"/", "u">>>> \in DOMAIN registered
    /\ Found(last.result[<<"GET", <<"/", "u", "/">>>>])
    /\ Found(last.result[<<"GET", <<"/", "/", "u">>>>])
    /\ Found(last.result[<<"GET", <<" ", "/", "u", "/", "/", " ">>>>])

\* C4: method isolation: a registration under method M changes the result of
\* no lookup under another method, and a lookup under a method succeeds only
\* if a route was registered under that method.
C4_MethodIsolation ==
    [][ last'.op = "register" =>
            /\ \A m \in Methods \ {last'.method} : \A q \in Requests :
                   search(trees', m, q) = search(trees, m, q)
            /\ \A m \in Methods : \A q \in Requests :
                   Found(search(trees', m, q)) =>
                       \E key \in DOMAIN registered' : key[1] = m ]_vars

\* the same path holds one chain under GET and another under POST, and a
\* path registered under GET alone is not found under POST
C4_Witness ==
    /\ last.op = "register"
    /\ last.method = "POST"
    /\ Found(search(trees, "GET", <<"/", "u">>))
    /\ Found(search(trees, "POST", <<"/", "u">>))
    /\ search(trees, "GET", <<"/", "u">>) # search(trees, "POST", <<"/", "u">>)

\* the pattern segs matches the request segments reqs position by position
Matches(segs, reqs) ==
    /\ Len(segs) = Len(reqs)
    /\ \A i \in 1..Len(segs) : IsDynamic(segs[i]) \/ segs[i] = reqs[i]

\* C5: on a successful lookup the parameter map binds, for every dynamic
\* segment of the matched route pattern, the declared name to the request
\* segment at that position, and has no other key; this for every registered
\* pattern, patterns with several dynamic segments included.
C5_ParamsBindEverySegment ==
    Served =>
        \A key \in DOMAIN registered : \A q \in Requests :
            LET res == last.result[<<key[1], q>>]
                segs == Segments(key[2])
                reqs == Segments(normalizePath(q))
                dyn == {i \in 1..Len(segs) : IsDynamic(segs[i])}
            IN (res.handlers = ChainOf(registered[key]) /\ Matches(segs, reqs)) =>
                   /\ DOMAIN res.params = {Tail(segs[i]) : i \in dyn}
                   /\ \A i \in dyn : res.params[Tail(segs[i])] = reqs[i]

\* C6: a static child wins over the parameter child at the same position: a
\* registered route made of static segments only is found under its own path
\* with its own chain and no parameter binding, whatever parameter routes
\* are registered beside it and in whichever order.
C6_StaticWins ==
    Served =>
        \A key \in DOMAIN registered :
            (\A i \in 1..Len(Segments(key[2])) : ~IsDynamic(Segments(key[2])[i])) =>
                last.result[<<key[1], key[2]>>] =
                    [handlers |-> ChainOf(registered[key]), params |-> EmptyMap]

\* "/u/m" and "/u/:i" are both registered; "/u/m" gets the chain of "/u/m"
\* without binding i, "/u/1" gets the chain of "/u/:i" with i = "1"
C6_Witness ==
    /\ Served
    /\ <<"GET", <<"/", "u", "/", "m">>>> \in DOMAIN registered
    /\ <<"GET", <<"/", "u", "/", ":", "i">>>> \in DOMAIN registered
    /\ last.result[<<"GET", <<"/", "u", "/", "m">>>>].params = EmptyMap
    /\ last.result[<<"GET", <<"/", "u", "/", "m">>>>].handlers =
           ChainOf(registered[<<"GET", <<"/", "u", "/", "m">>>>])
    /\ last.result[<<"GET", <<"/", "u", "/", "1">>>>].handlers =
           ChainOf(registered[<<"GET", <<"/", "u", "/", ":", "i">>>>])

\* C7: search reports not-found whenever a request segment matches neither a
\* static nor a parameter child, the request has more segments than the
\* routes along its walk, or the walk ends on a node no route ends at: a
\* found chain is always the chain of a registered route of the same method
\* that matches the request segment for segment, never of a prefix or of a
\* longer route.
C7_MissUnlessExactRoute ==
    Served =>
        \A m \in Methods : \A q \in Requests :
            LET res == last.result[<<m, q>>]
            IN Found(res) =>
                   \E key \in DOMAIN registered :
                       /\ key[1] = m
                       /\ Matches(Segments(key[2]), Segments(normalizePath(q)))
                       /\ res.handlers = ChainOf(registered[key])

\* only "/u/:i" is registered under GET: "/u/1" is found, while "/u" (a
\* prefix), "/u/1/p" (an extra segment) and "/x" (no child) are not
C7_Witness ==
    /\ Served
    /\ {key \in DOMAIN registered : key[1] = "GET"} = {<<"GET", <<"/", "u", "/", ":", "i">>>>}
    /\ Found(last.result[<<"GET", <<"/", "u", "/", "1">>>>])
    /\ ~Found(last.result[<<"GET", <<"/", "u">>>>])
    /\ ~Found(last.result[<<"GET", <<"/", "u", "/", "1", "/", "p">>>>])
    /\ ~Found(last.result[<<"GET", <<"/", "x">>>>])

\* the path norm declares, at some position, a parameter name other than the
\* one a route registered under method declares at that same trie position
Conflict(reg, method, norm) ==
    LET segs == Segments(norm)
    IN \E key \in DOMAIN reg :
           /\ key[1] = method
           /\ LET other == Segments(key[2])
              IN \E i \in 1..Len(segs) :
                     /\ i <= Len(other)
                     /\ IsDynamic(segs[i]) /\ IsDynamic(other[i])
                     /\ segs[i] # other[i]
                     /\ \A j \in 1..(i - 1) : segs[j] = other[j]

\* C8: a registration panics exactly when a dynamic segment of its path
\* declares a name different from the parameter name already registered at
\* that trie position; a registration that reuses the name and goes deeper
\* succeeds.
C8_ConflictPanics ==
    [][ last'.op = "register" =>
            (last'.panic <=> Conflict(registered, last'.method, normalizePath(last'.path)))
      ]_vars

\* "/u/:k" panics against the registered "/u/:i"
C8_Witness ==
    /\ last.op = "register"
    /\ last.panic
    /\ last.path = <<"/", "u", "/", ":", "k">>
    /\ <<last.method, <<"/", "u", "/", ":", "i">>>> \in DOMAIN registered

\* C9: re-registering a method and normalized path never fails and replaces
\* the stored chain: after any sequence of registrations every registered
\* (method, path) is found with exactly the chain of its last registration.
C9_LastRegistrationWins ==
    [][ /\ (last'.op = "register"
              /\ <<last'.method, normalizePath(last'.path)>> \in DOMAIN registered)
           => ~last'.panic
        /\ \A key \in DOMAIN registered' :
               search(trees', key[1], key[2]).handlers = ChainOf(registered'[key]) ]_vars

\* the second call registered the path of the first again; its handler
\* alone is the chain
C9_Witness ==
    /\ last.op = "register"
    /\ ~last.panic
    /\ regs = 2
    /\ Cardinality(DOMAIN registered) = 1
    /\ search(trees, last.method, last.path).handlers = MakeSlice(<<Handler(2)>>)

\* C10: Use is not retroactive: a Use call changes the result of no lookup,
\* and the chain a registration stores is the middleware of every Use call
\* made before it, in Use order, followed by the route's handlers.
C10_UseNotRetroactive ==
    [][ /\ last'.op = "use" =>
               \A m \in Methods : \A q \in Requests :
                   search(trees', m, q) = search(trees, m, q)
        /\ (last'.op = "register" /\ ~last'.panic) =>
               search(trees', last'.method, last'.path).handlers =
                   MakeSlice([i \in 1..uses |-> Middleware(i)] \o last'.args) ]_vars

\* one route was registered before the Use call and one after it: the first
\* is still found with its handler alone, the second with the middleware
\* before its handler
C10_Witness ==
    /\ last.op = "register"
    /\ middlewares = <<Middleware(1)>>
    /\ \E before, after \in DOMAIN registered :
           /\ registered[before].mws = <<>>
           /\ registered[after].mws = <<Middleware(1)>>
           /\ search(trees, before[1], before[2]).handlers = MakeSlice(<<Handler(1)>>)
           /\ search(trees, after[1], after[2]).handlers =
                  MakeSlice(<<Middleware(1), Handler(2)>>)

\* the nodes directly below the node at pos that no key of its children map
\* leads to
ParamChildren(tree, pos) ==
    {c \in DOMAIN tree :
        /\ Len(c) = Len(pos) + 1
        /\ SubSeq(c, 1, Len(pos)) = pos
        /\ c[Len(c)] \notin tree[pos].children.keys}

\* C25: after any sequence of registrations, failed ones included, a node
\* has at most one parameter child, and no registration changes the parameter
\* name of a parameter child that exists.
C25_OneParamChildFixedName ==
    /\ [](\A method \in DOMAIN trees : \A pos \in DOMAIN trees[method] :
             /\ Cardinality(ParamChildren(trees[method], pos)) <= 1
             /\ trees[method][pos].paramChild <=>
                    ParamChildren(trees[method], pos) = {Append(pos, ParamEdge)})
    /\ [][\A method \in DOMAIN trees : \A pos \in DOMAIN trees[method] :
             trees[method][pos].paramChild =>
                 /\ trees'[method][pos].paramChild
                 /\ trees'[method][Append(pos, ParamEdge)].paramName =
                        trees[method][Append(pos, ParamEdge)].paramName]_vars

\* "/u/:k" was refused after "/u/:i": the parameter child below "u" is
\* still the one named i
C25_Witness ==
    /\ last.op = "register"
    /\ last.panic
    /\ last.path = <<"/", "u", "/", ":", "k">>
    /\ trees[last.method][<< <<"u">> >>].paramChild
    /\ trees[last.method][<< <<"u">>, ParamEdge >>].paramName = <<"i">>

\* a registration through a router verb or a group has succeeded
Added(call) == call.op \in {"register", "gadd"} /\ ~call.panic

\* the path a registration call hands to addRoute
AddedPath(call) ==
    IF call.op = "gadd" THEN fullPath(groups, call.group, call.path) ELSE call.path

\* C27 as stated: a request that is found is still found after every later
\* successful registration.
C27_RoutesStayReachable ==
    [][Added(last') =>
          \A method \in Methods : \A q \in Requests :
             Found(search(trees, method, q)) => Found(search(trees', method, q))]_vars

\* the new route has a static segment equal to the request's segment at the
\* same position
Shadows(path, q) ==
    LET segs == Segments(normalizePath(path))
        reqs == Segments(normalizePath(q))
    IN \E i \in 1..Len(segs) :
           i <= Len(reqs) /\ ~IsDynamic(segs[i]) /\ segs[i] = reqs[i]

\* C27: a request that is found is still found after a later successful
\* registration, unless the new route is of the same method and has a static
\* segment equal to the request's segment at the same position; and every
\* registered route is still found under its own path.
C27_RoutesStayReachableUnlessShadowed ==
    [][Added(last') =>
          /\ \A method \in Methods : \A q \in Requests :
                (Found(search(trees, method, q)) /\ ~Found(search(trees', method, q)))
                    => (method = last'.method /\ Shadows(AddedPath(last'), q))
          /\ \A key \in DOMAIN registered :
                Found(search(trees', key[1], key[2]))]_vars

\* "/u/:i" then "u/m/" were registered: "/u/1" is still found through the
\* parameter child, "/u/m" through the new static child
C27_Witness ==
    /\ last.op = "register"
    /\ ~last.panic
    /\ last.path = <<"u", "/", "m", "/">>
    /\ <<last.method, <<"/", "u", "/", ":", "i">>>> \in DOMAIN registered
    /\ search(trees, last.method, <<"/", "u", "/", "1">>).handlers = MakeSlice(<<Handler(1)>>)
    /\ search(trees, last.method, <<"/", "u", "/", "m">>).handlers = MakeSlice(<<Handler(2)>>)

\* C26: a registration that fails with a parameter-name conflict, made
\* through a router verb or through a group, leaves the trees, the
\* middleware list and the result of every lookup as they were.
C26_FailedRegistrationChangesNothing ==
    [][(last'.op \in {"register", "gadd"} /\ last'.panic) =>
          /\ trees' = trees
          /\ middlewares' = middlewares
          /\ \A method \in Methods : \A q \in Requests :
                search(trees', method, q) = search(trees, method, q)]_vars

\* the group "/:i" refused ":k/" after the router registered "/:i/:i"
C26_Witness ==
    /\ last.op = "gadd"
    /\ last.panic
    /\ last.group = 2
    /\ last.path = <<":", "k", "/">>
    /\ DOMAIN registered = {<<"GET", <<"/", ":", "i", "/", ":", "i">>>>}

\* --------------------------------------------------- claims on groups
\* the group g, its parent, its grandparent, ... up to a root group
RECURSIVE Lineage(_)
Lineage(g) == IF g = NoGroup THEN <<>> ELSE <<g>> \o Lineage(groups[g].parent)

\* the middleware of the groups of a lineage, in lineage order
LineageMws(ids) == [i \in 1..Len(ids) |-> GroupMw(ids[i])]

\* the middleware of every Use call made so far, in call order
UsedSoFar == [i \in 1..uses |-> Middleware(i)]

GroupAdded == last.op = "gadd" /\ ~last.panic

\* C11: the chain stored for a route registered through a group is the
\* group's own middleware, then each ancestor's middleware nearest ancestor
\* first, then the router's global middleware as it is at the registration
\* call, then the route's handlers.
C11_GroupChainOrder ==
    GroupAdded =>
        \A key \in DOMAIN registered :
            registered[key].handlers = last.args =>
                search(trees, key[1], key[2]).handlers =
                    MakeSlice(LineageMws(Lineage(last.group)) \o UsedSoFar \o last.args)

\* deepest group [g2], parent group [g1], global [m1]: the chain is
\* [g2, g1, m1, handler]
C11_Witness ==
    /\ GroupAdded
    /\ Lineage(last.group) = <<2, 1>>
    /\ \E key \in DOMAIN registered :
           search(trees, key[1], key[2]).handlers =
               MakeSlice(<<GroupMw(2), GroupMw(1), Middleware(1), Handler(1)>>)

\* p1 + "/" + ... + pn of a sequence of strings
RECURSIVE JoinSlash(_)
JoinSlash(pieces) ==
    IF Len(pieces) = 0 THEN <<>>
    ELSE IF Len(pieces) = 1 THEN pieces[1]
    ELSE pieces[1] \o <<Slash>> \o JoinSlash(Tail(pieces))

\* the prefixes of the registering group and the relative path, as written
LastPieces == Append(groupRaw[last.group], last.path)

\* the route of the last group registration is stored at, and found under, path
StoredAt(path) ==
    /\ <<last.method, path>> \in DOMAIN registered
    /\ registered[<<last.method, path>>].handlers = last.args
    /\ search(trees, last.method, path).handlers =
           ChainOf(registered[<<last.method, path>>])

NoSpaceIn(s) == \A i \in 1..Len(s) : ~IsSpace(s[i])

\* C12 as stated: a route registered through a group with prefixes p1..pn
\* and relative path p is stored at, and found by lookup of,
\* normalizePath(p1 + "/" + ... + pn + "/" + p), for every prefix and path.
C12_StoredAtJoinedPath ==
    GroupAdded => StoredAt(normalizePath(JoinSlash(LastPieces)))

\* C12 as amended: the same, for prefixes and relative paths without
\* whitespace ("", "/", no leading slash, trailing slash, parameter segment).
C12_StoredAtJoinedPathNoSpace ==
    (GroupAdded /\ \A i \in 1..Len(LastPieces) : NoSpaceIn(LastPieces[i])) =>
        StoredAt(normalizePath(JoinSlash(LastPieces)))

\* group "a/", sub-group "/:i", relative path ":k/": the route is at /a/:i/:k
C12_Witness ==
    /\ GroupAdded
    /\ LastPieces = << <<"a", "/">>, <<"/", ":", "i">>, <<":", "k", "/">> >>
    /\ StoredAt(<<"/", "a", "/", ":", "i", "/", ":", "k">>)

\* ------------------------------------------------- claims on dispatch
Ended == disp.pc \in {"done", "panicked"}
InDispatch == Running \/ Ended

\* the indexes 0 .. n-1 in order
Indexes(n) == [i \in 1..n |-> i - 1]

Range(seq) == {seq[i] : i \in 1..Len(seq)}

\* no handler aborted or panicked and the request was not cancelled
Undisturbed == disp.abortAt = -1 /\ disp.panics = 0 /\ ~disp.cancelled

\* every handler entered has returned or is still on the stack
NoneDropped ==
    Range(disp.invoked) =
        Range(disp.completed) \cup {disp.stack[i].idx : i \in 2..Len(disp.stack)}

C14_AbortStopsChain ==
    /\ [](disp.abortAt # -1 =>
            /\ Len(disp.invoked) = disp.abortAt
            /\ disp.panics = 0 => NoneDropped /\ disp.pc # "panicked")
    /\ [][(HandlerNext /\ Ctx.aborted) =>
            /\ ctxs' = ctxs
            /\ disp'.invoked = disp.invoked
            /\ disp'.stack = [disp.stack EXCEPT ![Len(disp.stack)].nexts = @ + 1]]_vars

\* abort in handler #2 of 4, which then called Next to no effect: #3 and #4
\* never ran, #2 and #1 returned
C14_Witness ==
    /\ disp.pc = "done"
    /\ Len(disp.chain) = 4
    /\ disp.abortAt = 2
    /\ disp.noop
    /\ disp.invoked = <<0, 1>>
    /\ disp.completed = <<1, 0>>

\* C15: once the request's context is done no further handler is invoked
\* (none at all if it is done when the dispatch starts), the handlers already
\* entered run on and return, and the dispatch ends without a panic and
\* without a response written by the framework.
C15_CancelAtBoundaries ==
    disp.cancelAt # -1 =>
        /\ Len(disp.invoked) = disp.cancelAt
        /\ disp.panics = 0 =>
              /\ NoneDropped
              /\ disp.pc # "panicked"
              /\ disp.caught = 0
              /\ disp.status # 0 => DefaultNotFound \in Range(disp.chain)
        /\ disp.cancelAt = 0 => disp.status = 0

\* cancelled while handler #2 of 4 ran: #2 and #1 returned, #3 and #4 never
\* ran, nothing was written, the Context was released
C15_Witness ==
    /\ disp.pc = "done"
    /\ Len(disp.chain) = 4
    /\ disp.cancelAt = 2
    /\ disp.abortAt = -1
    /\ disp.invoked = <<0, 1>>
    /\ disp.completed = <<1, 0>>
    /\ disp.status = 0
    /\ disp.released = 1

\* the lookup of the request being served fails
LookupFails == search(trees, disp.method, disp.path).handlers.nil

\* C16 as stated: on a lookup miss the chain is exactly the current not-found
\* handler, invoked exactly once with an empty parameter map.
C16_NotFoundOnce ==
    (Ended /\ LookupFails) =>
        /\ disp.chain = <<notFound>>
        /\ disp.acquired.params = EmptyMap
        /\ disp.invoked = <<0>>

\* C16 as amended: the same, except that the not-found handler is not
\* invoked at all when the request's context is done as the dispatch starts.
C16_NotFoundOnceUnlessCancelled ==
    (InDispatch /\ LookupFails) =>
        /\ disp.chain = <<notFound>>
        /\ disp.acquired.params = EmptyMap
        /\ Running => Ctx.params = EmptyMap
        /\ disp.invoked = IF disp.cancelAt = 0 THEN <<>> ELSE <<0>>

\* a miss on a non-terminal node served by the application's own fallback
C16_Witness ==
    /\ disp.pc = "done"
    /\ disp.path = <<"/", "a">>
    /\ notFound = CustomNotFound
    /\ disp.chain = <<CustomNotFound>>
    /\ disp.invoked = <<0>>
    /\ disp.completed = <<0>>

\* the fallback the latest NotFound call asked for
Fallback ==
    IF last.op = "notfound" /\ last.args # <<NilHandler>> THEN last.args[1]
    ELSE DefaultNotFound

\* C17: a miss runs the fallback of the latest NotFound call, the built-in
\* one if there was none or if it passed nil; the built-in fallback answers
\* 404 with the body "404 page not found\n".
C17_NotFoundReplacesFallback ==
    (InDispatch /\ LookupFails) =>
        /\ disp.chain = <<Fallback>>
        /\ (Fallback = DefaultNotFound /\ disp.cancelAt # 0) =>
              /\ disp.pc = "done"
              /\ disp.status = 404
              /\ disp.body = "404 page not found\n"

\* after NotFound(nil) a miss is answered by the built-in fallback
C17_Witness ==
    /\ disp.pc = "done"
    /\ LookupFails
    /\ last.op = "notfound"
    /\ last.args = <<NilHandler>>
    /\ disp.invoked = <<0>>
    /\ disp.status = 404
    /\ disp.body = "404 page not found\n"

\* C18: every ServeHTTP call has released its Context exactly once when
\* control leaves it, also when a handler panicked.
C18_ReleasedExactlyOnce == Ended => disp.released = 1

\* C19: a panic raised during a dispatch is caught by Recover and answered
\* with 500, and ServeHTTP returns normally.
C19_PanicNeverEscapes ==
    (Ended /\ disp.panics > 0) =>
        /\ disp.pc = "done"
        /\ disp.caught = disp.panics
        /\ disp.status = 500

\* the Context acquireCtx must return for the request being served
Acquired ==
    [Writer |-> disp.req, Request |-> disp.req, params |-> EmptyMap, data |-> EmptyMap,
     index |-> -1,
     handlers |-> IF LookupFails THEN MakeSlice(<<notFound>>)
                  ELSE search(trees, disp.method, disp.path).handlers,
     aborted |-> FALSE]

\* C20: the Context acquireCtx returns, new or recycled, has cursor -1, abort
\* flag false, empty parameter and user-data maps and the new request's
\* chain, writer and request; during the dispatch its parameters are those
\* of the lookup and its user data was stored by this request.
C20_AcquiredContextIsClean ==
    InDispatch =>
        /\ disp.req = nreq
        /\ disp.acquired = Acquired
        /\ Running =>
              /\ Ctx.params = search(trees, disp.method, disp.path).params
              /\ \A k \in DOMAIN Ctx.data : Ctx.data[k] = disp.req

\* a miss served on a Context recycled from a request that captured a
\* parameter, stored user data, aborted and advanced the cursor
C20_Witness ==
    /\ Running
    /\ LookupFails
    /\ disp.dirty
    /\ Ctx.params = EmptyMap
    /\ Ctx.data = EmptyMap

\* C23: while a ServeHTTP call holds its Context, from acquireCtx up to and
\* including releaseCtx, no step turns the abort flag from true to false.
C23_AbortIsLatch ==
    [][(disp.pc = "running" /\ disp'.pc \in {"running", "done"} /\ Ctx.aborted)
           => ctxs'[disp'.ctx].aborted]_vars

\* a handler has aborted, called Next after that and stored a value, and the
\* flag is still set
C23_Witness ==
    /\ Running
    /\ Ctx.aborted
    /\ disp.noop
    /\ "k" \in DOMAIN Ctx.data

\* C24: the handlers entered and not yet left are nested in ascending index,
\* each one below the innermost inside its call of Next; a handler is invoked
\* only above handlers of smaller index, and once a call of Next has returned
\* to handler i every invoked handler of greater index has been left, by its
\* return or by a panic, and none of greater index is invoked afterwards.
C24_WrappingOrder ==
    /\ [](InDispatch =>
             /\ \A p \in 1..Len(disp.stack) - 1 :
                    /\ disp.stack[p].idx < disp.stack[p + 1].idx
                    /\ disp.stack[p].pc = "next"
             /\ \A i \in disp.nextDone : \A j \in Range(disp.invoked) :
                    j > i => /\ \A p \in 1..Len(disp.stack) : disp.stack[p].idx # j
                             /\ j \in Range(disp.completed) \/ disp.panics > 0)
    /\ [][(InDispatch /\ disp'.pc # "idle") =>
             \A k \in Len(disp.invoked) + 1..Len(disp'.invoked) :
                \A i \in disp.nextDone : disp'.invoked[k] <= i]_vars

\* h1 and h2 have both called Next, h3 and then h2 have returned, and h1 is
\* running the code after its call
C24_Witness ==
    /\ Running
    /\ Top(disp).idx = 1
    /\ Top(disp).pc = "run"
    /\ {1, 2} \subseteq disp.nextDone
    /\ disp.invoked = <<0, 1, 2, 3>>
    /\ disp.completed = <<3, 2>>

\* C28: once Recover has caught the panic of the handler at index k and
\* answered 500, no handler of greater index is invoked in that dispatch.
C28_NoHandlerAfterRecoveredPanic ==
    [][(InDispatch /\ disp'.pc # "idle" /\ disp'.caught > 0) =>
          \A p \in Len(disp.invoked) + 1..Len(disp'.invoked) :
             disp'.invoked[p] <= disp'.panicAt]_vars

\* C30: in a dispatch no handler is invoked twice and the indexes of the
\* handlers invoked are strictly increasing in the order of invocation.
C30_InvokedStrictlyIncreasing ==
    InDispatch =>
        \A p, q \in 1..Len(disp.invoked) : p < q => disp.invoked[p] < disp.invoked[q]

\* the goroutine serving a request keeps running: a handler that has been
\* invoked goes on, to a call of c.Next() or to its return
HandlerStep == LoggerNext \/ LoggerReturn \/ RepeatNext \/ RepeatReturn
SpecCursorLive == SpecCursor /\ WF_vars(HandlerStep)

\* a handler called Next twice, a panic was recovered, another handler
\* aborted, and four handlers were invoked
C30_Witness ==
    /\ InDispatch
    /\ disp.again
    /\ disp.caught > 0
    /\ disp.abortAt > 0
    /\ Len(disp.invoked) = 4

\* C29: the cursor never wraps: in every dispatch, of a chain of any length
\* and with handlers that call Next once or many times, the cursor is never
\* below -1, a handler is invoked only at a cursor inside the chain (no
\* handler of SpecCursor panics of its own, so a panic is an invocation at a
\* cursor outside the chain), and a chain neither aborted nor cancelled has
\* had all its handlers invoked when the dispatch ends.
C29_CursorNeverWraps ==
    InDispatch =>
        /\ \A i \in 1..Len(ctxs) : ctxs[i].index >= -1
        /\ \A p \in 1..Len(disp.invoked) :
               disp.invoked[p] >= 0 /\ disp.invoked[p] < Len(disp.chain)
        /\ disp.panics = 0
        /\ (Ended /\ disp.abortAt = -1 /\ ~disp.cancelled) =>
               disp.invoked = Indexes(Len(disp.chain))

\* ------------------------------------------------ claims on validator
Validated == vpc = "out"

\* the object validated is a UserAddress, by value or by pointer
IsUserAddress ==
    /\ vobj.kind \in {"struct", "ptr"}
    /\ Len(vobj.fields) = 4
    /\ vobj.fields[4].Name = "Address"

\* the value of field name of the nested Address
Nested(name) ==
    LET fields == vobj.fields[4].value.fields
    IN fields[CHOOSE i \in 1..Len(fields) : fields[i].Name = name].value

RequiredMessage == <<"This field is required">>

\* C21: ValidateStruct reports an empty Street or City of the nested Address
\* under "address.street" and "address.city" with the required message, and
\* reports nothing under these keys for a valid nested Address.
C21_NestedViolationsReported ==
    (Validated /\ IsUserAddress) =>
        /\ isEmpty(Nested("Street")) <=>
              ("address.street" \in DOMAIN verrs
               /\ verrs["address.street"] = <<RequiredMessage>>)
        /\ isEmpty(Nested("City")) <=>
              ("address.city" \in DOMAIN verrs
               /\ verrs["address.city"] = <<RequiredMessage>>)

\* ---------------------------------------------- claims on regex cache
\* C22: a pattern's cache entry is written once and never replaced, every
\* call with a valid pattern returns the instance of the cache entry, also
\* under concurrency, and an invalid pattern gets an error and no entry.
C22_OneInstancePerPattern ==
    /\ [](\A pattern \in DOMAIN returned :
             IF pattern \in ValidPatterns
             THEN /\ pattern \in DOMAIN regexCache
                  /\ returned[pattern] = {[re |-> regexCache[pattern], err |-> FALSE]}
             ELSE returned[pattern] = {[re |-> NoRegex, err |-> TRUE]})
    /\ [](DOMAIN regexCache \subseteq ValidPatterns)
    /\ [][\A pattern \in DOMAIN regexCache :
             /\ pattern \in DOMAIN regexCache'
             /\ regexCache'[pattern] = regexCache[pattern]]_vars

\* two goroutines asked for the same pattern, it was compiled once, and both
\* calls have returned that one instance
C22_Witness ==
    /\ compiled = 1
    /\ \A g \in {1, 2} :
          /\ gor[g].pc = "idle"
          /\ gor[g].pattern = "^a+$"
          /\ gor[g].re = <<"^a+$", 1>>
    /\ returned["^a+$"] = {[re |-> <<"^a+$", 1>>, err |-> FALSE]}

\* the fields of the validated object whose tag names the required rule and
\* whose value is empty
EmptyRequired ==
    {i \in 1..Len(vobj.fields) :
        /\ \E n \in 1..Len(ParseTag(vobj.fields[i].validate)) :
               ParseTag(vobj.fields[i].validate)[n].Name = RuleRequired
        /\ isEmpty(vobj.fields[i].value)}

\* C35: for a field whose tag includes the required rule and whose value is
\* empty, ValidateStruct reports exactly one message, the required one.
C35_RequiredAloneWhenEmpty ==
    (Validated /\ vobj.kind \in {"struct", "ptr"} /\ ~vobj.isNil) =>
        \A i \in EmptyRequired :
            /\ vobj.fields[i].json \in DOMAIN verrs
            /\ verrs[vobj.fields[i].json] = <<RequiredMessage>>


\* C31: a dispatch leaves the method-tree map with its nodes and chains, the
\* global middleware list and the not-found handler as they were, creates no
\* tree for a method that has none, and so leaves the result of every lookup
\* as it was.
C31_LookupIsReadOnly ==
    [][(disp' # disp) =>
          /\ trees' = trees
          /\ DOMAIN trees' = DOMAIN trees
          /\ middlewares' = middlewares
          /\ notFound' = notFound
          /\ \A rq \in ServeRequests :
                search(trees', rq[1], rq[2]) = search(trees, rq[1], rq[2])]_vars

\* a request of a method without a tree has been dispatched
C31_Witness ==
    /\ disp.pc = "done"
    /\ disp.method = "POST"
    /\ ~disp.found
    /\ "POST" \notin DOMAIN trees


\* C34: dispatch terminates: with handlers that all return, every ServeHTTP
\* call that started eventually returns, and the cursor only goes up until it
\* has passed the chain end: the loop of Next never finds it back below the
\* chain end at a value that is no index of the chain (no handler of
\* SpecCursor panics of its own, so disp.panics counts exactly these steps).
C34_DispatchTerminates ==
    (disp.pc = "running") ~> (disp.pc = "done" /\ disp.panics = 0)


\* ------------------------------------------------- the user-data map
\* every variable of the other specifications
DataOthers ==
    UNCHANGED <<stopVars, poolVars, regexVars, valVars, normVars, routerVars,
                groupVars, serveVars>>

\* the keys handlers use
DataKeys == {"k", "u"}

\* c.mu.Lock() can return, c.mu.RLock() can return
canLock(mu) == mu.writer = -1 /\ mu.readers = {}
canRLock(mu) == mu.writer = -1

\* an access to the map c.data made by agent a
Access(a, kind, op, key, locked) ==
    [by |-> a, kind |-> kind, op |-> op, key |-> key, locked |-> locked, raced |-> FALSE]

\* two accesses to one map that must not overlap
Races(x, y) == x.by # y.by /\ (x.kind = "write" \/ y.kind = "write")

\* access x begins: it and every access in progress it conflicts with are in
\* a data race
beginAccess(accs, x) ==
    LET hit == {y \in accs : Races(x, y)}
    IN {IF y \in hit THEN [y EXCEPT !.raced = TRUE] ELSE y : y \in accs}
           \cup {[x EXCEPT !.raced = hit # {}]}

\* the map as the access leaves it when nothing ran against it
applyAccess(keys, x) ==
    CASE x.op = "set" -> keys \cup {x.key}
      [] x.op = "delete" -> keys \ {x.key}
      [] x.op = "clear" -> {}
      [] OTHER -> keys

\* the agent's position when it is in none of the Context's methods
Base(a) == IF a = 0 THEN "handler" ELSE "ready"

\* an access ends. After a data race the map may hold any keys, or the
\* runtime has stopped the process (fatal error: concurrent map writes)
endAccess(a, pc) ==
    LET x == CHOOSE y \in accesses : y.by = a
    IN /\ accesses' = accesses \ {x}
       /\ IF x.raced
          THEN \/ /\ cdata' \in SUBSET DataKeys
                  /\ agents' = [agents EXCEPT ![a].pc = pc]
               \/ /\ cdata' = cdata
                  /\ agents' = [b \in DOMAIN agents |-> [pc |-> "fatal"]]
          ELSE /\ cdata' = applyAccess(cdata, x)
               /\ agents' = [agents EXCEPT ![a].pc = pc]

\* ServeHTTP: pool.Get returned the Context and acquireCtx comes to
\* clear(ctx.data), which it runs without c.mu
AcquireClear ==
    /\ agents[0].pc = "idle"
    /\ accesses' = beginAccess(accesses, Access(0, "write", "clear", "", FALSE))
    /\ agents' = [agents EXCEPT ![0].pc = "clearing"]
    /\ UNCHANGED <<cmu, cdata>>
    /\ DataOthers

\* clear(ctx.data) is done, acquireCtx returns and ctx.Next() runs a handler
ClearEnd ==
    /\ agents[0].pc = "clearing"
    /\ endAccess(0, "handler")
    /\ UNCHANGED cmu
    /\ DataOthers

\* the handler starts a goroutine that keeps the *Context
Spawn ==
    /\ agents[0].pc = "handler"
    /\ \E a \in 1..MaxSpawned :
          /\ agents[a].pc = "none"
          /\ \A b \in 1..a - 1 : agents[b].pc # "none"
          /\ agents' = [agents EXCEPT ![a].pc = "ready"]
    /\ UNCHANGED <<cmu, cdata, accesses>>
    /\ DataOthers

\* c.Set(key, v) and c.Delete(key) up to the access, with c.mu held
LockedWrite(a) ==
    /\ agents[a].pc = Base(a)
    /\ canLock(cmu)
    /\ \E op \in {"set", "delete"}, key \in DataKeys :
          /\ accesses' = beginAccess(accesses, Access(a, "write", op, key, TRUE))
          /\ agents' = [agents EXCEPT ![a].pc = op]
    /\ cmu' = [cmu EXCEPT !.writer = a]
    /\ UNCHANGED cdata
    /\ DataOthers

\* c.Set and c.Delete: the access is done, the deferred c.mu.Unlock()
WriteEnd(a) ==
    /\ agents[a].pc \in {"set", "delete"}
    /\ endAccess(a, Base(a))
    /\ cmu' = [cmu EXCEPT !.writer = -1]
    /\ DataOthers

\* c.Get(key), also from c.GetString, up to the access, with c.mu read-held
LockedRead(a) ==
    /\ agents[a].pc = Base(a)
    /\ canRLock(cmu)
    /\ \E key \in DataKeys :
          accesses' = beginAccess(accesses, Access(a, "read", "get", key, TRUE))
    /\ agents' = [agents EXCEPT ![a].pc = "get"]
    /\ cmu' = [cmu EXCEPT !.readers = @ \cup {a}]
    /\ UNCHANGED cdata
    /\ DataOthers

\* c.Get: the access is done, the deferred c.mu.RUnlock()
ReadEnd(a) ==
    /\ agents[a].pc = "get"
    /\ endAccess(a, Base(a))
    /\ cmu' = [cmu EXCEPT !.readers = @ \ {a}]
    /\ DataOthers

\* the chain is over: releaseCtx puts the Context back, ServeHTTP returns,
\* and the next request finds the Context in the pool
Release ==
    /\ agents[0].pc = "handler"
    /\ agents' = [agents EXCEPT ![0].pc = "idle"]
    /\ UNCHANGED <<cmu, cdata, accesses>>
    /\ DataOthers

DataNext ==
    \/ AcquireClear
    \/ ClearEnd
    \/ Spawn
    \/ \E a \in 0..MaxSpawned : LockedWrite(a)
    \/ \E a \in 0..MaxSpawned : WriteEnd(a)
    \/ \E a \in 0..MaxSpawned : LockedRead(a)
    \/ \E a \in 0..MaxSpawned : ReadEnd(a)
    \/ Release

SpecData == Init /\ [][DataNext]_vars

\* C33: the accesses to the user-data map being made under the Context's
\* lock (exclusive for Set, Delete and the clearing at re-acquisition, shared
\* for Get), a goroutine spawned by a handler never accesses the map while a
\* write by the framework or by another goroutine is in progress: no write to
\* the map overlaps any other access.
C33_DataAccessUnderLock ==
    \A x \in accesses : \A y \in accesses : ~Races(x, y)

\* ------------------------------------------------- the Context pool
\* every variable of the other specifications
PoolOthers ==
    UNCHANGED <<stopVars, dataVars, regexVars, valVars, normVars, routerVars,
                groupVars, serveVars>>

\* Context objects that can be referenced at once: as many as workers
MaxObjects == MaxWorkers

\* the request worker w serves: requests are told apart by their worker
NextRequest(w, req) == w

\* what search returns for the request: a chain and parameters of its own
PoolChain(req) == <<RecoverMw, <<"h", req>>>>
PoolParams(req) == MapSet(EmptyMap, "i", req)

\* routerImpl.pool after Get has returned x: x is no longer in it
poolGet_peek(p, x) == p
poolGet(p, x) == p \ {x}

\* routerImpl.pool after Put(x)
poolPut(p, x) == p \cup {x}

\* the worker's ServeHTTP call once acquireCtx and maps.Copy are done on
\* object x, whose content was c; stale tells whether c held user data of
\* another worker's request
Serving(w, x, c) ==
    [pc |-> "serving", req |-> NextRequest(w, workers[w].req), ctx |-> x,
     index |-> -1, aborted |-> FALSE,
     stale |-> \E k \in DOMAIN c.data : c.data[k] # w]

\* the Context with acquireCtx and maps.Copy done for the worker's request
AcquiredFor(w, c) ==
    LET req == NextRequest(w, workers[w].req)
        acq == acquireCtx(c, req, PoolChain(req))
    IN [acq EXCEPT !.params = mapsCopy(acq.params, PoolParams(req))]

\* ServeHTTP on worker w: pool.Get returns a pooled Context
PoolGet(w) ==
    /\ workers[w].pc = "idle"
    /\ \E x \in cpool :
          /\ cpool' = poolGet(cpool, x)
          /\ cobjs' = [cobjs EXCEPT ![x] = AcquiredFor(w, cobjs[x])]
          /\ workers' = [workers EXCEPT ![w] = Serving(w, x, cobjs[x])]
    /\ PoolOthers

\* ServeHTTP on worker w: pool.Get finds nothing for this worker (the pool is
\* empty, or what it holds is out of the worker's reach) and calls New
PoolNew(w) ==
    /\ workers[w].pc = "idle"
    /\ \E x \in 1..MaxObjects :
          /\ x \notin DOMAIN cobjs
          /\ \A y \in 1..x - 1 : y \in DOMAIN cobjs
          /\ cobjs' = [i \in DOMAIN cobjs \cup {x} |->
                          IF i = x THEN AcquiredFor(w, newContext) ELSE cobjs[i]]
          /\ workers' = [workers EXCEPT ![w] = Serving(w, x, newContext)]
    /\ UNCHANGED cpool
    /\ PoolOthers

\* the chain runs on worker w: Next moves the cursor to the first handler,
\* which calls c.Set("k", v) with a value of its request, then c.Abort()
PoolHandle(w) ==
    /\ workers[w].pc = "serving"
    /\ LET x == workers[w].ctx
           c == cobjs[x]
       IN \/ /\ c.index = -1
             /\ cobjs' = [cobjs EXCEPT ![x].index = Int8(c.index + 1)]
             /\ workers' = [workers EXCEPT ![w].index = Int8(c.index + 1)]
          \/ /\ c.index = 0
             /\ "k" \notin DOMAIN c.data
             /\ cobjs' = [cobjs EXCEPT ![x] = Set(c, "k", workers[w].req)]
             /\ UNCHANGED workers
          \/ /\ "k" \in DOMAIN c.data
             /\ ~c.aborted
             /\ cobjs' = [cobjs EXCEPT ![x] = Abort(c)]
             /\ workers' = [workers EXCEPT ![w].aborted = TRUE]
    /\ UNCHANGED cpool
    /\ PoolOthers

\* ctx.Next() has returned on worker w: releaseCtx, ServeHTTP returns
PoolRelease(w) ==
    /\ workers[w].pc = "serving"
    /\ LET x == workers[w].ctx
       IN /\ cobjs' = [cobjs EXCEPT ![x] = releaseCtx(cobjs[x])]
          /\ cpool' = poolPut(cpool, x)
    /\ workers' = [workers EXCEPT ![w] = [pc |-> "idle", req |-> @.req, ctx |-> 0]]
    /\ PoolOthers

\* a panic leaves ServeHTTP on worker w: no releaseCtx, nothing references
\* the Context any more
PoolPanic(w) ==
    /\ workers[w].pc = "serving"
    /\ cobjs' = [i \in DOMAIN cobjs \ {workers[w].ctx} |-> cobjs[i]]
    /\ workers' = [workers EXCEPT ![w] = [pc |-> "idle", req |-> @.req, ctx |-> 0]]
    /\ UNCHANGED cpool
    /\ PoolOthers

\* the garbage collector empties the pool of one Context
PoolDrop ==
    /\ \E x \in cpool :
          /\ cpool' = cpool \ {x}
          /\ cobjs' = [i \in DOMAIN cobjs \ {x} |-> cobjs[i]]
    /\ UNCHANGED workers
    /\ PoolOthers

PoolNext ==
    \/ \E w \in 1..MaxWorkers : PoolGet(w)
    \/ \E w \in 1..MaxWorkers : PoolNew(w)
    \/ \E w \in 1..MaxWorkers : PoolHandle(w)
    \/ \E w \in 1..MaxWorkers : PoolRelease(w)
    \/ \E w \in 1..MaxWorkers : PoolPanic(w)
    \/ PoolDrop

SpecPool == Init /\ [][PoolNext]_vars

\* the workers inside ServeHTTP
InFlight == {w \in 1..MaxWorkers : workers[w].pc = "serving"}

\* C32: under any interleaving of concurrent ServeHTTP calls, the Context a
\* call holds between acquireCtx and releaseCtx is held by no other call and
\* cannot be obtained from the pool, and its chain, cursor, abort flag,
\* parameters and user data are those of the call's own request.
C32_ContextOwnedByOneDispatch ==
    \A w \in InFlight :
        LET x == workers[w].ctx
            req == workers[w].req
        IN /\ x \notin cpool
           /\ \A v \in InFlight \ {w} : workers[v].ctx # x
           /\ x \in DOMAIN cobjs
           /\ cobjs[x].Request = req
           /\ cobjs[x].Writer = req
           /\ cobjs[x].handlers = MakeSlice(PoolChain(req))
           /\ cobjs[x].params = PoolParams(req)
           /\ cobjs[x].index = workers[w].index
           /\ cobjs[x].aborted = workers[w].aborted
           /\ \A k \in DOMAIN cobjs[x].data : cobjs[x].data[k] = req

\* two calls are in flight, each on a Context that the other worker's
\* previous request had used and left its data in, and each has stored its own
C32_Witness ==
    /\ InFlight = 1..MaxWorkers
    /\ \A w \in 1..2 :
          /\ workers[w].stale
          /\ "k" \in DOMAIN cobjs[workers[w].ctx].data
          /\ workers[w].index > -1

\* ------------------------------------------------- Stop and Run
\* every variable of the other specifications
StopOthers ==
    UNCHANGED <<dataVars, poolVars, regexVars, valVars, normVars, routerVars,
                groupVars, serveVars>>

\* close(sl.stop): closing a closed channel panics and changes nothing
closeStop(ch) == [closed |-> TRUE, closes |-> ch.closes + 1]

\* sync.Once.doSlow under the mutex of the Once, f being close(sl.stop): f
\* runs only if done is still unset, and done is set when it has run
onceDoSlow_noRecheck(o, ch) ==
    [o |-> [o EXCEPT !.done = TRUE], ch |-> closeStop(ch), panic |-> ch.closed]
onceDoSlow(o, ch) ==
    IF o.done
    THEN [o |-> o, ch |-> ch, panic |-> FALSE]
    ELSE [o |-> [o EXCEPT !.done = TRUE], ch |-> closeStop(ch), panic |-> ch.closed]

\* goroutine g calls sl.Stop()
StopCall(g) ==
    /\ callers[g].pc = "idle"
    /\ callers[g].calls < MaxStopCalls
    /\ callers' = [callers EXCEPT ![g] = [pc |-> "do", calls |-> @.calls + 1]]
    /\ UNCHANGED <<stop, stopOnce, run>>
    /\ StopOthers

\* stopOnce.Do: the load of done; set, Do and Stop return at once
OnceDo(g) ==
    /\ callers[g].pc = "do"
    /\ callers' = [callers EXCEPT ![g].pc = IF stopOnce.done THEN "idle" ELSE "slow"]
    /\ UNCHANGED <<stop, stopOnce, run>>
    /\ StopOthers

\* doSlow: o.m.Lock()
OnceLock(g) ==
    /\ callers[g].pc = "slow"
    /\ stopOnce.m = 0
    /\ stopOnce' = [stopOnce EXCEPT !.m = g]
    /\ callers' = [callers EXCEPT ![g].pc = "locked"]
    /\ UNCHANGED <<stop, run>>
    /\ StopOthers

\* doSlow with the mutex held, up to the deferred Unlock; Stop returns, or
\* the panic of a second close leaves it
OnceSlow(g) ==
    /\ callers[g].pc = "locked"
    /\ LET r == onceDoSlow(stopOnce, stop)
       IN /\ stop' = r.ch
          /\ stopOnce' = [r.o EXCEPT !.m = 0]
          /\ callers' = [callers EXCEPT ![g].pc = IF r.panic THEN "panicked" ELSE "idle"]
    /\ UNCHANGED run
    /\ StopOthers

\* Run or RunTLS: the server goroutine is started and waitStopSignal comes
\* to its select
RunStart ==
    /\ run.pc = "new"
    /\ run' = [run EXCEPT !.pc = "wait"]
    /\ UNCHANGED <<stop, stopOnce, callers>>
    /\ StopOthers

\* SIGINT or SIGTERM is delivered to the process
Signal ==
    /\ ~run.sig
    /\ run' = [run EXCEPT !.sig = TRUE]
    /\ UNCHANGED <<stop, stopOnce, callers>>
    /\ StopOthers

\* waitStopSignal: the select takes a case that is ready
WaitStop ==
    /\ run.pc = "wait"
    /\ \E cause \in {"stop", "signal"} :
          /\ cause = "stop" => stop.closed
          /\ cause = "signal" => run.sig
          /\ run' = [run EXCEPT !.pc = "shutdown", !.cause = cause]
    /\ UNCHANGED <<stop, stopOnce, callers>>
    /\ StopOthers

\* waitStopSignal: sl.server.Shutdown(ctx) returns, at the latest after 30 s
Shutdown ==
    /\ run.pc = "shutdown"
    /\ run' = [run EXCEPT !.pc = "stopped"]
    /\ UNCHANGED <<stop, stopOnce, callers>>
    /\ StopOthers

\* one step of a goroutine inside Stop
StopStep == \E g \in 1..MaxGoroutines : OnceDo(g) \/ OnceLock(g) \/ OnceSlow(g)

StopNext ==
    \/ \E g \in 1..MaxGoroutines : StopCall(g)
    \/ StopStep
    \/ RunStart
    \/ Signal
    \/ WaitStop
    \/ Shutdown

SpecStop == Init /\ [][StopNext]_vars

\* every goroutine that is inside Stop, and Run once it has been called, keep
\* running
SpecStopLive == SpecStop /\ WF_vars(StopStep) /\ WF_vars(WaitStop) /\ WF_vars(Shutdown)

\* C36: Stop is idempotent and safe under concurrency: close(sl.stop) is
\* executed at most once and no call of Stop panics, the channel is closed
\* once any call of Stop has returned, and a Run that is blocked in
\* waitStopSignal with Stop called goes on to the end of the shutdown.
C36_StopClosesOnce ==
    /\ [](stop.closes <= 1)
    /\ [](\A g \in 1..MaxGoroutines : callers[g].pc # "panicked")
    /\ [](\A g \in 1..MaxGoroutines :
             (callers[g].pc = "idle" /\ callers[g].calls > 0) =>
                 (stop.closed /\ stop.closes = 1))
    /\ ((run.pc = "wait" /\ \E g \in 1..MaxGoroutines : callers[g].calls > 0)
            ~> (run.pc = "stopped"))

\* two goroutines each called Stop twice, one of them while Run was already
\* waiting, and Run shut the server down because of the stop
C36_Witness ==
    /\ \A g \in 1..MaxGoroutines : callers[g].calls = MaxStopCalls /\ callers[g].pc = "idle"
    /\ stop.closes = 1
    /\ ~run.sig
    /\ run.pc = "stopped"
    /\ run.cause = "stop"

====
